---------------------------- MODULE Spec2Model ----------------------------
(***************************************************************************)
(* A model of abakada.org.  Its client-side modules:                         *)
(*   - Search  (assets/js/search.js): unified filter state, scoring,       *)
(*              fuzzy matching, subscribers;                               *)
(*   - Theme   (assets/js/theme.js): light / dark / auto theme;            *)
(*   - I18n    (assets/js/i18n.js): language choice, translation loading;  *)
(* and of its command-line scripts:                                        *)
(*   - lint-icons and icon-governance: the icon checks and their exit      *)
(*              codes;                                                     *)
(*   - build.js: minified, content-hashed assets and rewritten pages.      *)
(* Strings are sequences of one-character strings, so that substring,      *)
(* prefix, split, join and lower-casing are computed and not assumed.      *)
(***************************************************************************)
EXTENDS Integers, Sequences, FiniteSets, TLC

VARIABLES
    levA, levB, levOut, levPc,                 \* a call of levenshteinDistance
    state, tools, searchIndex, givenTools,     \* Search: state, tools, index
    onResultsCallback, lastProcessedKey,
    subscribers, heap,
    callerArg, callerSnap, callerMeta,         \* arrays the caller still holds
    delivered, events, lastOp, thrown,
    currentTheme, systemPreference,            \* Theme module state
    dataTheme, storage, storageWorks, mediaMatches,
    themeInit, themeOp, lastSaved,
    currentLang, translations, i18nInitialized, \* I18n module state
    observers, langStorage, langStorageWorks, browserLang,
    loads, i18nOp, i18nEvents,
    iconsFile, toolsFile, reportFile, iconRun, \* the icon scripts and their files
    srcAssets, srcHtml, dist, distHtml,        \* the build script and its directories
    hashMap, manifest, buildPc

levVars    == <<levA, levB, levOut, levPc>>
searchVars == <<state, tools, searchIndex, givenTools, onResultsCallback, lastProcessedKey,
                subscribers, heap, callerArg, callerSnap, callerMeta,
                delivered, events, lastOp, thrown>>
themeVars  == <<currentTheme, systemPreference, dataTheme, storage,
                storageWorks, mediaMatches, themeInit, themeOp, lastSaved>>
i18nVars   == <<currentLang, translations, i18nInitialized, observers, langStorage,
                langStorageWorks, browserLang, loads, i18nOp, i18nEvents>>
iconVars   == <<iconsFile, toolsFile, reportFile, iconRun>>
buildVars  == <<srcAssets, srcHtml, dist, distHtml, hashMap, manifest, buildPc>>
vars       == <<levVars, searchVars, themeVars, i18nVars, iconVars, buildVars>>

-----------------------------------------------------------------------------
(* Bounds of the model.                                                    *)

\* longest string handed to levenshteinDistance
MaxLen == 3
\* longest array handed to setPlatforms and setTags
MaxSelected == 2
\* most calls of I18n.init and I18n.setLanguage waiting for a fetch at once
MaxLoads == 2
\* most observers subscribed to I18n at once
MaxObservers == 1
\* most parts of a dot-notation key handed to I18n.has
MaxKeyParts == 2

-----------------------------------------------------------------------------
(* Strings                                                                 *)

Min2(x, y) == IF x <= y THEN x ELSE y
Max2(x, y) == IF x >= y THEN x ELSE y
Min3(x, y, z) == Min2(x, Min2(y, z))

\* all strings over the alphabet A of length at most n
StringsUpTo(A, n) == UNION {[1..k -> A] : k \in 0..n}

\* String.prototype.substring(0, n)
Prefix(s, n) == SubSeq(s, 1, Min2(n, Len(s)))

\* String.prototype.startsWith
StartsWith(s, w) == Len(w) <= Len(s) /\ SubSeq(s, 1, Len(w)) = w

\* String.prototype.includes
Includes(s, w) ==
    \E i \in 0..(Len(s) - Len(w)) : SubSeq(s, i + 1, i + Len(w)) = w

-----------------------------------------------------------------------------
(* levenshteinDistance(a, b): the dynamic-programming matrix of the code.  *)
(* matrix[i][j] is indexed by i over b and j over a.                       *)

\* one row of the matrix from the row above it: matrix[i][0] = i, then the
\* cells from left to right (a row is kept as the sequence of its cells
\* 0..Len(a), cell j at place j + 1)
\* levRow without the insertion term
levRowNoInsert(a, b, i, above) ==
    LET cells[j \in 0..Len(a)] ==
          IF j = 0 THEN <<i>>
          ELSE LET left == cells[j - 1]
               IN Append(left, IF b[i] = a[j] THEN above[j]
                    ELSE Min2(above[j] + 1, above[j + 1] + 1))
    IN cells[Len(a)]

levRow(a, b, i, above) ==
    LET cells[j \in 0..Len(a)] ==
          IF j = 0 THEN <<i>>
          ELSE LET left == cells[j - 1]
               IN Append(left,
                    IF b[i] = a[j] THEN above[j]
                    ELSE Min3(above[j] + 1, left[j] + 1, above[j + 1] + 1))
    IN cells[Len(a)]

levenshteinDistance(a, b) ==
    IF Len(a) = 0 THEN Len(b)
    ELSE IF Len(b) = 0 THEN Len(a)
    ELSE
      LET matrix[i \in 0..Len(b)] ==
            IF i = 0 THEN [j \in 1..(Len(a) + 1) |-> j - 1]
            ELSE levRow(a, b, i, matrix[i - 1])
      IN matrix[Len(b)][Len(a) + 1]

-----------------------------------------------------------------------------
(* More string operations of the JavaScript runtime.                       *)

\* the upper-case letters that occur in the data, and their lower case
ToLowerChar(c) ==
    CASE c = "A" -> "a" [] c = "D" -> "d" [] c = "G" -> "g"
      [] c = "K" -> "k" [] c = "P" -> "p" [] c = "T" -> "t"
      [] c = "L" -> "l" [] c = "H" -> "h" [] c = "U" -> "u"
      [] c = "S" -> "s" [] OTHER -> c

\* String.prototype.toLowerCase
ToLower(s) == [i \in 1..Len(s) |-> ToLowerChar(s[i])]

\* [\x00-\x1F\x7F]: the tab is the control character of the model
IsControl(c) == c = "\t"

\* \s
IsSpace(c) == c \in {" ", "\t"}

\* .replace(/[\x00-\x1F\x7F]/g, '')
RemoveControl(s) == SelectSeq(s, LAMBDA c : ~IsControl(c))

\* String.prototype.trim
Trim(s) ==
    LET keep == {i \in 1..Len(s) : ~IsSpace(s[i])}
    IN IF keep = {} THEN <<>>
       ELSE SubSeq(s, CHOOSE i \in keep : \A j \in keep : i <= j,
                      CHOOSE i \in keep : \A j \in keep : i >= j)

\* .replace(/\s+/g, ' ')
CollapseSpaces(s) ==
    LET out[i \in 0..Len(s)] ==
          IF i = 0 THEN <<>>
          ELSE LET prev == out[i - 1]
               IN IF IsSpace(s[i])
                  THEN IF i > 1 /\ IsSpace(s[i - 1]) THEN prev
                       ELSE Append(prev, " ")
                  ELSE Append(prev, s[i])
    IN out[Len(s)]

\* String.prototype.split(/\s+/): the pieces between maximal runs of white
\* space, the empty pieces at the ends included
SplitWS(s) ==
    LET c == CollapseSpaces(s)
        out[i \in 0..Len(c)] ==
          IF i = 0 THEN << <<>> >>
          ELSE LET prev == out[i - 1]
               IN IF c[i] = " " THEN Append(prev, <<>>)
                  ELSE [prev EXCEPT ![Len(prev)] = Append(@, c[i])]
    IN out[Len(c)]

\* Array.prototype.join(sep)
Join(parts, sep) ==
    LET out[i \in 0..Len(parts)] ==
          IF i = 0 THEN <<>>
          ELSE IF i = 1 THEN parts[1]
               ELSE out[i - 1] \o sep \o parts[i]
    IN out[Len(parts)]

\* Array.prototype.indexOf, 0 when absent (the code's -1), else the 1-based place
IndexOf(arr, x) ==
    IF \E i \in 1..Len(arr) : arr[i] = x
    THEN CHOOSE i \in 1..Len(arr) : arr[i] = x /\ \A j \in 1..(i - 1) : arr[j] # x
    ELSE 0

\* Array.prototype.splice(index, 1)
RemoveAt(arr, i) == SubSeq(arr, 1, i - 1) \o SubSeq(arr, i + 1, Len(arr))

\* Array.prototype.includes
ArrIncludes(arr, x) == \E i \in 1..Len(arr) : arr[i] = x

-----------------------------------------------------------------------------
(* CONFIG of search.js                                                     *)

MAX_QUERY_LENGTH == 100
MIN_SEARCH_LENGTH == 1
\* FUZZY_THRESHOLD: 0.6, as the fraction 6 / 10
FUZZY_THRESHOLD_NUM == 6
FUZZY_THRESHOLD_DEN == 10

-----------------------------------------------------------------------------
(* Values handed to the public functions: a string, null, an array.        *)

Str(s)   == [t |-> "string", v |-> s]
Arr(a)   == [t |-> "array", v |-> a]
NullValue == [t |-> "null", v |-> <<>>]

\* sanitizeQuery(input)
sanitizeQuery(input) ==
    IF input.t = "null" THEN <<>>
    ELSE LET q == CollapseSpaces(Trim(RemoveControl(input.v)))
             cut == IF Len(q) > MAX_QUERY_LENGTH
                    THEN Prefix(q, MAX_QUERY_LENGTH) ELSE q
         IN ToLower(cut)

-----------------------------------------------------------------------------
(* The tools data: the words of the catalogue.                             *)

W_all       == <<"a", "l", "l">>
W_design    == <<"d", "e", "s", "i", "g", "n">>
W_photo     == <<"p", "h", "o", "t", "o">>
W_web       == <<"w", "e", "b">>
W_ios       == <<"i", "o", "s">>
W_art       == <<"a", "r", "t">>
W_raw       == <<"r", "a", "w">>
W_gpl       == <<"g", "p", "l">>
N_Gimp      == <<"G", "i", "m", "p">>
N_Krita     == <<"K", "r", "i", "t", "a">>
N_Digikam   == <<"D", "i", "g", "i", "k", "a", "m">>
TG_edit_photo == <<"e", "d", "i", "t", " ", "p", "h", "o", "t", "o">>
TG_paint_app  == <<"p", "a", "i", "n", "t", " ", "a", "p", "p">>
TG_photo_tool == <<"p", "h", "o", "t", "o", " ", "t", "o", "o", "l">>
A_Photoshop == <<"P", "h", "o", "t", "o", "s", "h", "o", "p">>

Tool(id, name, tagline, tags, platforms, alts, category) ==
    [id |-> id, name |-> name, tagline |-> tagline, description |-> <<>>,
     license |-> W_gpl, tags |-> tags, platforms |-> platforms,
     alternatives_to |-> alts, category |-> category]

\* an alternative to Photoshop whose tagline also holds the word "photo"
T_Gimp    == Tool(1, N_Gimp, TG_edit_photo, <<W_art>>, <<W_web>>,
                  <<A_Photoshop>>, W_design)
\* an alternative to Photoshop that mentions it nowhere else
T_Krita   == Tool(2, N_Krita, TG_paint_app, <<W_art>>, <<W_ios>>,
                  <<A_Photoshop>>, W_design)
\* no alternative; its tagline starts with "photo"
T_Digikam == Tool(3, N_Digikam, TG_photo_tool, <<W_raw>>, <<W_web, W_ios>>,
                  <<>>, W_photo)
\* an entry without a name
T_NoName  == Tool(4, <<>>, TG_photo_tool, <<W_art>>, <<W_web>>, <<>>, W_photo)

\* the lists that init is given
ToolCatalogs == { <<T_Gimp, T_Krita, T_Digikam, T_NoName>>,
                  <<T_Digikam, T_NoName, T_Gimp>> }

\* tool && typeof tool === 'object' && tool.id && tool.name
ValidTool(tool) == tool.id # 0 /\ tool.name # <<>>

-----------------------------------------------------------------------------
(* buildSearchIndex                                                        *)

IndexEntry(tool) ==
    LET searchText ==
          ToLower(Join(<<tool.name, tool.tagline, tool.description, tool.license>>
                       \o tool.tags \o tool.platforms \o tool.alternatives_to,
                       <<" ">>))
    IN [text |-> searchText,
        words |-> SelectSeq(SplitWS(searchText), LAMBDA w : Len(w) > 1),
        alternatives |-> [i \in 1..Len(tool.alternatives_to) |->
                            ToLower(tool.alternatives_to[i])]]

\* searchIndex.set(tool.id, ...) in the order of the list: the last entry of
\* an id is the one the Map keeps
buildSearchIndex(ts) ==
    [id \in {ts[i].id : i \in 1..Len(ts)} |->
        IndexEntry(ts[CHOOSE i \in 1..Len(ts) :
                        ts[i].id = id /\ \A j \in (i + 1)..Len(ts) : ts[j].id # id])]

-----------------------------------------------------------------------------
(* fuzzyMatch and calculateMatchScore.  A similarity is the fraction       *)
(* num / den, so that 1 - distance / maxLen is exact.                      *)

FracGreater(x, y) == x.num * y.den > y.num * x.den

fuzzyMatch(query, words) ==
    LET loop[k \in 0..Len(words)] ==
          IF k = 0 THEN [ret |-> FALSE, best |-> [num |-> 0, den |-> 1]]
          ELSE LET p == loop[k - 1]
                   word == words[k]
                   distance == levenshteinDistance(query, Prefix(word, Len(query) + 2))
                   maxLen == Max2(Len(query), Len(word))
                   similarity == [num |-> maxLen - distance, den |-> maxLen]
               IN IF p.ret THEN p
                  ELSE IF Len(word) < 2 THEN p
                  ELSE IF StartsWith(word, query)
                       THEN [ret |-> TRUE, best |-> [num |-> 1, den |-> 1]]
                  ELSE IF FracGreater(similarity, p.best)
                       THEN [ret |-> FALSE, best |-> similarity]
                  ELSE p
    IN loop[Len(words)].best

\* the score of one query word
wordScoreOf(tool, indexed, word) ==
    LET lowerName == ToLower(tool.name)
        lowerTagline == ToLower(tool.tagline)
    IN IF lowerName = word THEN 100
       ELSE IF StartsWith(lowerName, word) THEN 80
       ELSE IF Includes(lowerName, word) THEN 60
       ELSE IF StartsWith(lowerTagline, word) THEN 40
       ELSE IF Includes(lowerTagline, word) THEN 30
       ELSE IF \E i \in 1..Len(indexed.alternatives) :
                  Includes(indexed.alternatives[i], word) THEN 70
       ELSE IF Includes(indexed.text, word) THEN 20
       ELSE LET fuzzyScore == fuzzyMatch(word, indexed.words)
            IN IF fuzzyScore.num * FUZZY_THRESHOLD_DEN
                    > FUZZY_THRESHOLD_NUM * fuzzyScore.den
               THEN (fuzzyScore.num * 15) \div fuzzyScore.den
               ELSE 0

\* calculateMatchScore that adds up the word scores and lets a word of score
\* 0 pass
calculateMatchScoreAnyWord(tool, queryWords, index) ==
    IF Len(queryWords) = 0 THEN 0
    ELSE IF tool.id \notin DOMAIN index THEN 0
    ELSE
      LET loop[k \in 0..Len(queryWords)] ==
            IF k = 0 THEN 0
            ELSE LET p == loop[k - 1]
                 IN p + wordScoreOf(tool, index[tool.id], queryWords[k])
      IN loop[Len(queryWords)]

calculateMatchScore(tool, queryWords, index) ==
    IF Len(queryWords) = 0 THEN 0
    ELSE IF tool.id \notin DOMAIN index THEN 0
    ELSE
      LET loop[k \in 0..Len(queryWords)] ==
            IF k = 0 THEN [ret |-> FALSE, totalScore |-> 0]
            ELSE LET p == loop[k - 1]
                     wordScore == wordScoreOf(tool, index[tool.id], queryWords[k])
                 IN IF p.ret THEN p
                    ELSE IF wordScore = 0 THEN [ret |-> TRUE, totalScore |-> 0]
                    ELSE [ret |-> FALSE, totalScore |-> p.totalScore + wordScore]
      IN loop[Len(queryWords)].totalScore

-----------------------------------------------------------------------------
(* The body of performSearch: filter, score, sort.                         *)

\* a sort that puts an item ahead of the items of the same score
sortByScoreUnstable(items) ==
    LET out[k \in 0..Len(items)] ==
          IF k = 0 THEN <<>>
          ELSE LET prev == out[k - 1]
                   x == items[k]
                   ahead == Cardinality({i \in 1..Len(prev) : prev[i].score > x.score})
               IN SubSeq(prev, 1, ahead) \o <<x>> \o SubSeq(prev, ahead + 1, Len(prev))
    IN out[Len(items)]

\* Array.prototype.sort((a, b) => b.score - a.score): stable, so an item goes
\* behind every item whose score is not smaller
sortByScore(items) ==
    LET out[k \in 0..Len(items)] ==
          IF k = 0 THEN <<>>
          ELSE LET prev == out[k - 1]
                   x == items[k]
                   ahead == Cardinality({i \in 1..Len(prev) : prev[i].score >= x.score})
               IN SubSeq(prev, 1, ahead) \o <<x>> \o SubSeq(prev, ahead + 1, Len(prev))
    IN out[Len(items)]

\* state.query.split(/\s+/).filter(w => w.length > 0)
queryWordsOf(query) == SelectSeq(SplitWS(query), LAMBDA w : Len(w) > 0)

\* a search whose platform filter wants every selected platform
searchResultsEveryPlatform(query, category, platforms, tags, ts, given, index) ==
    LET byCategory ==
          IF category # <<>> /\ category # W_all
          THEN SelectSeq(ts, LAMBDA tool : given[tool].category = category)
          ELSE ts
        byPlatform ==
          SelectSeq(byCategory, LAMBDA tool :
                 \A i \in 1..Len(platforms) :
                    ArrIncludes(given[tool].platforms, platforms[i]))
        byTag ==
          IF Len(tags) > 0
          THEN SelectSeq(byPlatform, LAMBDA tool :
                 \E i \in 1..Len(tags) : ArrIncludes(given[tool].tags, tags[i]))
          ELSE byPlatform
    IN IF query # <<>> /\ Len(query) >= MIN_SEARCH_LENGTH
       THEN LET queryWords == queryWordsOf(query)
                scored == [i \in 1..Len(byTag) |->
                             [tool |-> byTag[i],
                              score |-> calculateMatchScore(given[byTag[i]],
                                                            queryWords, index)]]
                kept == sortByScore(SelectSeq(scored, LAMBDA item : item.score > 0))
            IN [i \in 1..Len(kept) |-> kept[i].tool]
       ELSE byTag

\* ts: the module's tools, each the place of its object in the list `given`
searchResults(query, category, platforms, tags, ts, given, index) ==
    LET byCategory ==
          IF category # <<>> /\ category # W_all
          THEN SelectSeq(ts, LAMBDA tool : given[tool].category = category)
          ELSE ts
        byPlatform ==
          IF Len(platforms) > 0
          THEN SelectSeq(byCategory, LAMBDA tool :
                 \E i \in 1..Len(platforms) :
                    ArrIncludes(given[tool].platforms, platforms[i]))
          ELSE byCategory
        byTag ==
          IF Len(tags) > 0
          THEN SelectSeq(byPlatform, LAMBDA tool :
                 \E i \in 1..Len(tags) : ArrIncludes(given[tool].tags, tags[i]))
          ELSE byPlatform
    IN IF query # <<>> /\ Len(query) >= MIN_SEARCH_LENGTH
       THEN LET queryWords == queryWordsOf(query)
                scored == [i \in 1..Len(byTag) |->
                             [tool |-> byTag[i],
                              score |-> calculateMatchScore(given[byTag[i]],
                                                            queryWords, index)]]
                kept == sortByScore(SelectSeq(scored, LAMBDA item : item.score > 0))
            IN [i \in 1..Len(kept) |-> kept[i].tool]
       ELSE byTag

-----------------------------------------------------------------------------
(* The Search module's state.  givenTools is the list init was given, and *)
(* a tool object is its place in that list: tools and the results hold     *)
(* places.  The platforms and tags arrays are objects:                     *)
(* the heap maps an address to the array that lives there, and whoever     *)
(* holds an array holds its address.  Each holder keeps one array alive,   *)
(* so one cell per holder is all a new array needs.                        *)

Addr == {"statePlatforms", "stateTags", "argArray",
         "snapPlatforms", "snapTags", "metaPlatforms", "metaTags",
         "notifyPlatforms", "notifyTags"}

\* the module as it is loaded
InitialState ==
    [query |-> <<>>, category |-> W_all,
     platforms |-> "statePlatforms", tags |-> "stateTags",
     isInitialized |-> FALSE]
EmptyHeap == [a \in Addr |-> <<>>]

NoRef == "none"
NoArrays == [platforms |-> NoRef, tags |-> NoRef]

\* lastProcessedKey = null: no key is this one, every key holds a "|"
NullKey == <<"null">>

\* no new array: the reference to the one at src
spreadAlias(h, src, cell) == [ref |-> src, heap |-> h]

\* [...array]: a new array, put in `cell`, with the elements of the one at src
spread(h, src, cell) == [ref |-> cell, heap |-> [h EXCEPT ![cell] = h[src]]]

\* `${query}|${category}|${platforms.join(',')}|${tags.join(',')}`
searchKeyOf(st, h) ==
    st.query \o <<"|">> \o st.category \o <<"|">>
      \o Join(h[st.platforms], <<",">>) \o <<"|">> \o Join(h[st.tags], <<",">>)

\* hasActiveFilters()
hasActiveFilters(st, h) ==
    \/ Len(st.query) > 0
    \/ Len(h[st.platforms]) > 0
    \/ Len(h[st.tags]) > 0
    \/ st.category # W_all

\* getState(): the returned object, its two arrays new, in the given cells
getState(st, h, ts, cellP, cellT) ==
    LET p == spread(h, st.platforms, cellP)
        g == spread(p.heap, st.tags, cellT)
    IN [obj |-> [query |-> st.query,
                 category |-> st.category,
                 platforms |-> p.ref,
                 tags |-> g.ref,
                 resultsCount |-> Len(ts),
                 isInitialized |-> st.isInitialized,
                 hasQuery |-> Len(st.query) > 0,
                 hasFilters |-> Len(h[st.platforms]) > 0 \/ Len(h[st.tags]) > 0,
                 hasActiveFilters |-> \/ Len(st.query) > 0
                                      \/ Len(h[st.platforms]) > 0
                                      \/ Len(h[st.tags]) > 0
                                      \/ st.category # W_all],
        heap |-> g.heap]

\* the meta object of notifyResults, its two arrays new
metaOf(st, h, ts) ==
    LET p == spread(h, st.platforms, "metaPlatforms")
        g == spread(p.heap, st.tags, "metaTags")
    IN [obj |-> [query |-> st.query,
                 category |-> st.category,
                 platforms |-> p.ref,
                 tags |-> g.ref,
                 total |-> Len(ts),
                 hasQuery |-> Len(st.query) > 0,
                 hasFilters |-> Len(h[st.platforms]) > 0 \/ Len(h[st.tags]) > 0,
                 hasActiveFilters |-> \/ Len(st.query) > 0
                                      \/ Len(h[st.platforms]) > 0
                                      \/ Len(h[st.tags]) > 0
                                      \/ st.category # W_all],
        heap |-> g.heap]

\* an object as its reader sees it: the arrays by their elements
Deref(obj, h) == [obj EXCEPT !.platforms = h[obj.platforms], !.tags = h[obj.tags]]

\* the callbacks that can subscribe; the second one throws when it is called
Callbacks == {"cbA", "cbB"}
Throws(cb) == cb = "cbB"

\* performSearch(): the new lastProcessedKey, and whether notifyResults hands
\* results to the callback
performSearch(st, h, lpk, ts, given, index, callback) ==
    LET searchKey == searchKeyOf(st, h)
    IN IF searchKey = lpk
       THEN [key |-> lpk, deliver |-> FALSE, results |-> <<>>]
       ELSE [key |-> searchKey, deliver |-> callback,
             results |-> searchResults(st.query, st.category, h[st.platforms],
                                       h[st.tags], ts, given, index)]

\* notifyStateChange(): one call per subscriber in the order of the Set, a
\* throw caught per call, then the filterStateChanged event
notifyStateChange(st, h, ts, subs) ==
    LET currentState == getState(st, h, ts, "notifyPlatforms", "notifyTags")
        seen == Deref(currentState.obj, currentState.heap)
    IN [events |-> [i \in 1..Len(subs) |->
                      [kind |-> "subscriber", cb |-> subs[i], arg |-> seen,
                       caught |-> Throws(subs[i])]]
                   \o <<[kind |-> "filterStateChanged", cb |-> "window", arg |-> seen,
                         caught |-> FALSE]>>,
        heap |-> currentState.heap]

-----------------------------------------------------------------------------
(* The operations of Search.  lastOp names the last call and, for the      *)
(* calls whose effect is stated against the filters before them, holds     *)
(* what is needed of those filters; events lists what the call invoked, in *)
(* order.                                                                  *)

\* the filters as a reader sees them
filterView(st, h) ==
    [query |-> st.query, category |-> st.category,
     platforms |-> h[st.platforms], tags |-> h[st.tags]]

Op(name) == [name |-> name, pre |-> <<>>]
\* for clearFilters and resetAll: the query and the category before the call,
\* and whether any filter was set
OpOn(name, st, h) ==
    [name |-> name,
     pre |-> <<[query |-> st.query, category |-> st.category,
                hasFilters |-> Len(h[st.platforms]) > 0 \/ Len(h[st.tags]) > 0]>>]

\* an array nobody holds any more is gone
collect(h, st, argRef) ==
    IF argRef # "argArray" /\ st.platforms # "argArray" /\ st.tags # "argArray"
    THEN [h EXCEPT !["argArray"] = <<>>]
    ELSE h

\* what a call leaves behind: ps is what performSearch did, m the meta
\* object of notifyResults, h2 the heap after them, n what notifyStateChange did
afterCall(op, st1, argRef, notify, ps, m, h2, n) ==
    /\ state' = st1
    /\ heap' = collect(IF notify THEN n.heap ELSE h2, st1, argRef)
    /\ callerArg' = argRef
    /\ lastProcessedKey' = ps.key
    /\ delivered' = IF ps.deliver
                    THEN <<[results |-> ps.results, meta |-> Deref(m.obj, m.heap)]>>
                    ELSE <<>>
    /\ callerMeta' = IF ps.deliver
                     THEN [platforms |-> m.obj.platforms, tags |-> m.obj.tags]
                     ELSE callerMeta
    /\ events' = (IF ps.deliver
                  THEN <<[kind |-> "results", cb |-> "onResults",
                          arg |-> Deref(m.obj, m.heap), caught |-> FALSE]>>
                  ELSE <<>>)
                 \o (IF notify THEN n.events ELSE <<>>)
    /\ lastOp' = op
    /\ thrown' = FALSE
    /\ UNCHANGED <<tools, searchIndex, givenTools, onResultsCallback,
                   subscribers, callerSnap>>

\* notifyResults(results) when performSearch got that far, then
\* notifyStateChange()
afterSearch(op, st1, h1, argRef, notify, ps, m) ==
    afterCall(op, st1, argRef, notify, ps, m,
              IF ps.deliver THEN m.heap ELSE h1,
              notifyStateChange(st1, IF ps.deliver THEN m.heap ELSE h1,
                                tools, subscribers))

\* performSearch() and then, when notify is set, notifyStateChange(): the
\* common tail of the state-changing functions
searchAndNotify(op, st1, h1, lpk1, argRef, notify) ==
    afterSearch(op, st1, h1, argRef, notify,
                performSearch(st1, h1, lpk1, tools, givenTools, searchIndex,
                              onResultsCallback),
                metaOf(st1, h1, tools))

\* init(toolsData, onResults)
InitSearch(toolsData, onResults) ==
    /\ IF state.isInitialized
       THEN UNCHANGED <<state, tools, searchIndex, givenTools, onResultsCallback>>
       ELSE LET given == IF toolsData.t = "array" THEN toolsData.v ELSE <<>>
                kept == SelectSeq([i \in 1..Len(given) |-> i],
                                  LAMBDA i : ValidTool(given[i]))
            IN /\ tools' = kept
               /\ searchIndex' = buildSearchIndex([i \in 1..Len(kept) |-> given[kept[i]]])
               /\ givenTools' = given
               /\ onResultsCallback' = onResults
               /\ state' = [state EXCEPT !.isInitialized = TRUE]
    /\ lastOp' = Op("init")
    /\ events' = <<>>
    /\ thrown' = FALSE
    /\ delivered' = <<>>
    /\ UNCHANGED <<lastProcessedKey, subscribers, heap, callerArg, callerSnap,
                   callerMeta>>

\* setQuery(query): query.length throws a TypeError on null, after state.query
\* was set and before the search
SetQuery(query) ==
    LET st1 == [state EXCEPT !.query = sanitizeQuery(query)]
    IN IF query.t = "null"
       THEN /\ state' = st1
            /\ lastOp' = Op("setQuery")
            /\ events' = <<>>
            /\ thrown' = TRUE
            /\ delivered' = <<>>
            /\ UNCHANGED <<tools, searchIndex, givenTools, onResultsCallback,
                           lastProcessedKey, subscribers, heap, callerArg,
                           callerSnap, callerMeta>>
       ELSE searchAndNotify(Op("setQuery"), st1, heap, lastProcessedKey,
                            callerArg, TRUE)

\* handleSearchInput(e): the input event of the search box
HandleSearchInput(rawValue) ==
    searchAndNotify(Op("handleSearchInput"),
                    [state EXCEPT !.query = sanitizeQuery(Str(rawValue))],
                    heap, lastProcessedKey, callerArg, TRUE)

\* clearSearch()
ClearSearch ==
    searchAndNotify(Op("clearSearch"), [state EXCEPT !.query = <<>>],
                    heap, NullKey, callerArg, TRUE)

\* setCategory(category)
SetCategory(category) ==
    searchAndNotify(Op("setCategory"),
                    [state EXCEPT !.category =
                        IF category.t = "string" THEN category.v ELSE W_all],
                    heap, lastProcessedKey, callerArg, TRUE)

\* state.platforms = Array.isArray(platforms) ? [...platforms] : []
setPlatformsArray(h, platforms) ==
    IF platforms.t = "array"
    THEN spread([h EXCEPT !["argArray"] = platforms.v], "argArray", "statePlatforms")
    ELSE [ref |-> "statePlatforms", heap |-> [h EXCEPT !["statePlatforms"] = <<>>]]

\* state.tags = Array.isArray(tags) ? [...tags] : []
setTagsArray(h, tags) ==
    IF tags.t = "array"
    THEN spread([h EXCEPT !["argArray"] = tags.v], "argArray", "stateTags")
    ELSE [ref |-> "stateTags", heap |-> [h EXCEPT !["stateTags"] = <<>>]]

\* setPlatforms(platforms); keep: the caller holds on to its array
SetPlatforms(platforms, keep) ==
    LET a == setPlatformsArray(heap, platforms)
    IN searchAndNotify(Op("setPlatforms"), [state EXCEPT !.platforms = a.ref],
                       a.heap, lastProcessedKey,
                       IF keep /\ platforms.t = "array" THEN "argArray" ELSE NoRef,
                       TRUE)

\* setTags(tags)
SetTags(tags, keep) ==
    LET a == setTagsArray(heap, tags)
    IN searchAndNotify(Op("setTags"), [state EXCEPT !.tags = a.ref],
                       a.heap, lastProcessedKey,
                       IF keep /\ tags.t = "array" THEN "argArray" ELSE NoRef,
                       TRUE)

\* indexOf, then push or splice, on the array itself
toggleIn(arr, x) ==
    LET index == IndexOf(arr, x)
    IN IF index = 0 THEN Append(arr, x) ELSE RemoveAt(arr, index)

\* togglePlatform(platform)
TogglePlatform(platform) ==
    searchAndNotify(Op("togglePlatform"), state,
                    [heap EXCEPT ![state.platforms] = toggleIn(@, platform)],
                    lastProcessedKey, callerArg, TRUE)

\* toggleTag(tag)
ToggleTag(tag) ==
    searchAndNotify(Op("toggleTag"), state,
                    [heap EXCEPT ![state.tags] = toggleIn(@, tag)],
                    lastProcessedKey, callerArg, TRUE)

\* a clearFilters that empties the query as well
ClearFiltersAndQuery ==
    searchAndNotify(OpOn("clearFilters", state, heap),
                    [state EXCEPT !.query = <<>>,
                                  !.platforms = "statePlatforms",
                                  !.tags = "stateTags"],
                    [heap EXCEPT !["statePlatforms"] = <<>>, !["stateTags"] = <<>>],
                    lastProcessedKey, callerArg, TRUE)

\* clearFilters()
ClearFilters ==
    searchAndNotify(OpOn("clearFilters", state, heap),
                    [state EXCEPT !.platforms = "statePlatforms",
                                  !.tags = "stateTags"],
                    [heap EXCEPT !["statePlatforms"] = <<>>, !["stateTags"] = <<>>],
                    lastProcessedKey, callerArg, TRUE)

\* a resetAll that leaves lastProcessedKey as it is
ResetAllKeepKey ==
    searchAndNotify(OpOn("resetAll", state, heap),
                    [state EXCEPT !.query = <<>>, !.category = W_all,
                                  !.platforms = "statePlatforms",
                                  !.tags = "stateTags"],
                    [heap EXCEPT !["statePlatforms"] = <<>>, !["stateTags"] = <<>>],
                    lastProcessedKey, callerArg, TRUE)

\* resetAll()
ResetAll ==
    searchAndNotify(OpOn("resetAll", state, heap),
                    [state EXCEPT !.query = <<>>, !.category = W_all,
                                  !.platforms = "statePlatforms",
                                  !.tags = "stateTags"],
                    [heap EXCEPT !["statePlatforms"] = <<>>, !["stateTags"] = <<>>],
                    NullKey, callerArg, TRUE)

\* performSearch(), as the page calls it on a language change
PerformSearchCall ==
    searchAndNotify(Op("performSearch"), state, heap, lastProcessedKey,
                    callerArg, FALSE)

\* subscribe(callback): a Set, so a second add changes nothing
Subscribe(callback) ==
    /\ subscribers' = IF callback \in Callbacks /\ ~ArrIncludes(subscribers, callback)
                      THEN Append(subscribers, callback)
                      ELSE subscribers
    /\ lastOp' = Op("subscribe")
    /\ events' = <<>>
    /\ thrown' = FALSE
    /\ delivered' = <<>>
    /\ UNCHANGED <<state, tools, searchIndex, givenTools, onResultsCallback,
                   lastProcessedKey, heap, callerArg, callerSnap, callerMeta>>

\* the function subscribe returned: subscribers.delete(callback)
Unsubscribe(callback) ==
    /\ subscribers' = SelectSeq(subscribers, LAMBDA c : c # callback)
    /\ lastOp' = Op("unsubscribe")
    /\ events' = <<>>
    /\ thrown' = FALSE
    /\ delivered' = <<>>
    /\ UNCHANGED <<state, tools, searchIndex, givenTools, onResultsCallback,
                   lastProcessedKey, heap, callerArg, callerSnap, callerMeta>>

\* getState(), the caller keeping the object
GetStateCall ==
    LET g == getState(state, heap, tools, "snapPlatforms", "snapTags")
    IN /\ heap' = g.heap
       /\ callerSnap' = [platforms |-> g.obj.platforms, tags |-> g.obj.tags]
       /\ lastOp' = Op("getState")
       /\ events' = <<>>
       /\ thrown' = FALSE
       /\ delivered' = <<>>
       /\ UNCHANGED <<state, tools, searchIndex, givenTools, onResultsCallback,
                      lastProcessedKey, subscribers, callerArg, callerMeta>>

\* the arrays a caller holds: the one it passed, those of the state object
\* it got, those of the meta object its results callback got
CallerRefs ==
    {callerArg, callerSnap.platforms, callerSnap.tags,
     callerMeta.platforms, callerMeta.tags} \ {NoRef}

\* the caller lets go of the array at ref: it is gone unless the state holds it
release(h, st, ref) ==
    IF ref \in {st.platforms, st.tags} THEN h ELSE [h EXCEPT ![ref] = <<>>]
letGo(held, ref) == IF held = ref THEN NoRef ELSE held

\* what a change of the caller's array at ref leaves behind, h1 the heap with
\* the changed array
afterMutation(name, ref, h1) ==
    /\ heap' = release(h1, state, ref)
    /\ callerArg' = letGo(callerArg, ref)
    /\ callerSnap' = [platforms |-> letGo(callerSnap.platforms, ref),
                      tags |-> letGo(callerSnap.tags, ref)]
    /\ callerMeta' = [platforms |-> letGo(callerMeta.platforms, ref),
                      tags |-> letGo(callerMeta.tags, ref)]
    /\ lastOp' = [name |-> name, pre |-> <<filterView(state, heap)>>, ref |-> ref]
    /\ events' = <<>>
    /\ thrown' = FALSE
    /\ delivered' = <<>>
    /\ UNCHANGED <<state, tools, searchIndex, givenTools, onResultsCallback,
                   lastProcessedKey, subscribers>>

\* the caller pushes onto one of its arrays, and lets go of it
CallerPush(ref, x) ==
    /\ ref \in CallerRefs
    /\ afterMutation("callerPush", ref, [heap EXCEPT ![ref] = Append(@, x)])

\* the caller empties one of its arrays (length = 0), and lets go of it
CallerClear(ref) ==
    /\ ref \in CallerRefs
    /\ Len(heap[ref]) > 0
    /\ afterMutation("callerClear", ref, [heap EXCEPT ![ref] = <<>>])

\* reset()
ResetSearch ==
    /\ tools' = <<>>
    /\ state' = InitialState
    /\ heap' = collect([heap EXCEPT !["statePlatforms"] = <<>>, !["stateTags"] = <<>>],
                       [platforms |-> "statePlatforms", tags |-> "stateTags"],
                       callerArg)
    /\ onResultsCallback' = FALSE
    /\ lastProcessedKey' = NullKey
    /\ searchIndex' = <<>>
    /\ subscribers' = <<>>
    /\ lastOp' = Op("reset")
    /\ events' = <<>>
    /\ thrown' = FALSE
    /\ delivered' = <<>>
    /\ givenTools' = <<>>
    /\ UNCHANGED <<callerArg, callerSnap, callerMeta>>

-----------------------------------------------------------------------------
(* A call of levenshteinDistance on two strings over a two-letter alphabet *)

LevAlphabet == {"a", "b"}
LevInputs == StringsUpTo(LevAlphabet, MaxLen)

LevCall ==
    /\ levPc = "call"
    /\ levOut' = levenshteinDistance(levA, levB)
    /\ levPc' = "done"
    /\ UNCHANGED <<levA, levB>>

-----------------------------------------------------------------------------
(* The Theme module.  storage is the value of localStorage['abakada-theme'] *)
(* ("absent" when there is none), storageWorks whether localStorage can be  *)
(* used (it throws when it cannot), mediaMatches what the media query       *)
(* (prefers-color-scheme: dark) says, dataTheme the data-theme attribute    *)
(* of the document ("unset" before any theme was applied).                  *)

THEMES == {"light", "dark", "auto"}

\* what localStorage may hold when the page loads
StoredValues == {"absent", "light", "dark", "auto", "solarized"}

\* what setTheme may be handed
ThemeInputs == THEMES \cup {"solarized"}

\* getSavedTheme(): null is "absent"
getSavedTheme(stored, works) ==
    IF works
    THEN IF stored \in THEMES THEN stored ELSE "absent"
    ELSE "absent"

\* an applyTheme that takes 'auto' for light
applyThemeNoAuto(theme, sysPref) == IF theme = "dark" THEN "dark" ELSE "light"

\* applyTheme(theme): the data-theme attribute it sets
applyTheme(theme, sysPref) ==
    LET actualTheme == IF theme = "auto" THEN sysPref ELSE theme
    IN IF actualTheme = "dark" \/ (theme = "auto" /\ sysPref = "dark")
       THEN "dark" ELSE "light"

\* getAppliedTheme()
getAppliedTheme(theme, sysPref) == IF theme = "auto" THEN sysPref ELSE theme

\* a setItem that stores nothing
saveThemeNever(theme, stored, works) == stored

\* localStorage.setItem(STORAGE_KEY, theme) inside try / catch
saveTheme(theme, stored, works) == IF works THEN theme ELSE stored

TOp(name, theme) == [name |-> name, theme |-> theme]

\* init()
ThemeInitCall ==
    LET sys == IF mediaMatches THEN "dark" ELSE "light"
        saved == getSavedTheme(storage, storageWorks)
        theme == IF saved # "absent" THEN saved ELSE "auto"
    IN /\ systemPreference' = sys
       /\ themeInit' = TRUE
       /\ currentTheme' = theme
       /\ dataTheme' = applyTheme(theme, sys)
       /\ themeOp' = TOp("init", theme)
       /\ UNCHANGED <<storage, storageWorks, mediaMatches, lastSaved>>

\* setTheme(theme)
SetTheme(theme) ==
    IF theme \notin THEMES
    THEN /\ themeOp' = TOp("setThemeRejected", theme)
         /\ UNCHANGED <<currentTheme, systemPreference, dataTheme, storage,
                        storageWorks, mediaMatches, themeInit, lastSaved>>
    ELSE /\ currentTheme' = theme
         /\ storage' = saveTheme(theme, storage, storageWorks)
         /\ dataTheme' = applyTheme(theme, systemPreference)
         /\ themeOp' = TOp("setTheme", theme)
         /\ lastSaved' = IF storageWorks THEN theme ELSE lastSaved
         /\ UNCHANGED <<systemPreference, storageWorks, mediaMatches, themeInit>>

\* a toggle that looks at the chosen theme only, not at what 'auto' stands for
toggleTargetOfChosen(theme, sysPref) == IF theme = "light" THEN "dark" ELSE "light"

\* toggle(): the theme it hands to setTheme
toggleTarget(theme, sysPref) ==
    LET actualTheme == IF theme = "auto" THEN sysPref ELSE theme
    IN IF actualTheme = "light" THEN "dark" ELSE "light"

\* toggle()
ToggleTheme ==
    LET theme == toggleTarget(currentTheme, systemPreference)
    IN /\ currentTheme' = theme
       /\ storage' = saveTheme(theme, storage, storageWorks)
       /\ dataTheme' = applyTheme(theme, systemPreference)
       /\ themeOp' = [name |-> "toggle", theme |-> theme,
                      before |-> getAppliedTheme(currentTheme, systemPreference),
                      prior |-> IF themeOp.name = "toggle"
                                THEN themeOp.before ELSE "none"]
       /\ lastSaved' = IF storageWorks THEN theme ELSE lastSaved
       /\ UNCHANGED <<systemPreference, storageWorks, mediaMatches, themeInit>>

\* the system colour scheme changes; handleSystemChange(e) runs once init has
\* registered it
SystemChange(matches) ==
    /\ matches # mediaMatches
    /\ mediaMatches' = matches
    /\ IF themeInit
       THEN LET sys == IF matches THEN "dark" ELSE "light"
            IN /\ systemPreference' = sys
               /\ dataTheme' = IF currentTheme = "auto"
                               THEN applyTheme("auto", sys) ELSE dataTheme
       ELSE UNCHANGED <<systemPreference, dataTheme>>
    /\ themeOp' = [name |-> "systemChange", theme |-> currentTheme,
                   before |-> dataTheme]
    /\ UNCHANGED <<currentTheme, storage, storageWorks, themeInit, lastSaved>>

\* the page is loaded anew: the module's variables start over, the storage stays
PageReload ==
    /\ currentTheme' = "auto"
    /\ systemPreference' = "light"
    /\ dataTheme' = "unset"
    /\ themeInit' = FALSE
    /\ themeOp' = TOp("reload", "auto")
    /\ UNCHANGED <<storage, storageWorks, mediaMatches, lastSaved>>

\* localStorage becomes unusable, or usable again
StorageAvailability(works) ==
    /\ works # storageWorks
    /\ storageWorks' = works
    /\ themeOp' = TOp("storage", currentTheme)
    /\ UNCHANGED <<currentTheme, systemPreference, dataTheme, storage,
                   mediaMatches, themeInit, lastSaved>>

-----------------------------------------------------------------------------
(* The I18n module.  A language is the string of its code.  langStorage is *)
(* the value of localStorage['abakada-language'] (null when there is none), *)
(* browserLang is navigator.language.  init and setLanguage are async:     *)
(* each call that got as far as loadTranslations is in `loads` until its   *)
(* fetches are over, and the fetches of different calls end in any order.  *)

\* the language codes the module names, and one it does not support
Lang ==
    [en |-> <<"e", "n">>, tl |-> <<"t", "l">>, ilo |-> <<"i", "l", "o">>,
     bis |-> <<"b", "i", "s">>, fil |-> <<"f", "i", "l">>,
     ceb |-> <<"c", "e", "b">>, fr |-> <<"f", "r">>]

DEFAULT_LANG == Lang.en
SUPPORTED_LANGS == <<Lang.en, Lang.tl, Lang.ilo, Lang.bis>>

\* undefined, and an object with the given properties
Undefined == [t |-> "undefined", v |-> <<>>]
Obj(o) == [t |-> "object", v |-> o]

\* String.prototype.split(sep), sep one character
SplitOn(s, sep) ==
    LET out[i \in 0..Len(s)] ==
          IF i = 0 THEN << <<>> >>
          ELSE LET prev == out[i - 1]
               IN IF s[i] = sep THEN Append(prev, <<>>)
                  ELSE [prev EXCEPT ![Len(prev)] = Append(@, s[i])]
    IN out[Len(s)]

\* the keys of the translation files of the model
Key ==
    [title |-> <<"t", "i", "t", "l", "e">>, nav |-> <<"n", "a", "v">>,
     home |-> <<"h", "o", "m", "e">>, about |-> <<"a", "b", "o", "u", "t">>,
     none |-> <<"x">>]

\* assets/data/translations/${lang}.json: every file has a title (here the
\* code of its language) and a nav.home; en.json has an empty nav.about and
\* the others have none
TranslationsOf(lang) ==
    Obj([k \in {Key.title, Key.nav} |->
           IF k = Key.title THEN Str(lang)
           ELSE IF lang = Lang.en
                THEN Obj([n \in {Key.home, Key.about} |->
                            IF n = Key.home THEN Str(<<"H">>) ELSE Str(<<>>)])
                ELSE Obj([n \in {Key.home} |-> Str(<<"B">>)])])

\* let translations = {}
NoTranslations == Obj(<<>>)

\* !value
Falsy(value) ==
    \/ value.t \in {"null", "undefined"}
    \/ value.t = "string" /\ value.v = <<>>

\* value[part]: a property of an object, undefined when there is none (no key
\* of the model is a property of a string)
Property(value, part) ==
    IF value.t = "object" /\ part \in DOMAIN value.v THEN value.v[part] ELSE Undefined

\* getNestedValue(obj, path)
getNestedValue(obj, path) ==
    IF Falsy(obj) \/ path = <<>> THEN NullValue
    ELSE LET parts == SplitOn(path, ".")
             reduce[i \in 0..Len(parts)] ==
               IF i = 0 THEN obj
               ELSE LET acc == reduce[i - 1]
                    IN IF Falsy(acc) THEN acc ELSE Property(acc, parts[i])
         IN reduce[Len(parts)]

\* has(key): getNestedValue(translations, key) !== null
has(trs, key) == getNestedValue(trs, key).t # "null"

\* SUPPORTED_LANGS.includes(x)
SupportedLang(x) == x.t = "string" /\ ArrIncludes(SUPPORTED_LANGS, x.v)

\* getSavedLanguage() without the test of SUPPORTED_LANGS
getSavedLanguageUnchecked(stored, works) ==
    IF works /\ stored.t = "string" THEN stored ELSE NullValue

\* getSavedLanguage(): the saved language, or null
getSavedLanguage(stored, works) ==
    IF works /\ SupportedLang(stored) THEN stored ELSE NullValue

\* detectBrowserLanguage(): split throws a TypeError when navigator.language
\* and navigator.userLanguage are both undefined or empty
detectBrowserLanguage(navLang) ==
    IF Falsy(navLang) THEN [threw |-> TRUE, lang |-> <<>>]
    ELSE LET langCode == ToLower(SplitOn(navLang.v, "-")[1])
         IN [threw |-> FALSE,
             lang |-> IF langCode = Lang.fil \/ langCode = Lang.tl THEN Lang.tl
                      ELSE IF langCode = Lang.ilo THEN Lang.ilo
                      ELSE IF langCode = Lang.ceb \/ langCode = Lang.bis THEN Lang.bis
                      ELSE IF ArrIncludes(SUPPORTED_LANGS, langCode) THEN langCode
                      ELSE DEFAULT_LANG]

\* how a fetch of loadTranslations can end: the file is there; the response
\* is not OK; fetch rejects; response.json() rejects
FetchOutcomes == {"ok", "notOk", "fetchError", "jsonError"}

\* loadTranslations(lang) without the load of the default language
loadTranslationsNoFallback(lang, outcome, trs) ==
    IF outcome = "ok"
    THEN [translations |-> TranslationsOf(lang), next |-> <<>>, rejected |-> FALSE]
    ELSE [translations |-> trs, next |-> <<>>, rejected |-> FALSE]

\* one pass through loadTranslations(lang) whose fetch ended with outcome:
\* the translations after it, the language it goes on to load (none: <<>>),
\* and whether it rejects
loadTranslations(lang, outcome, trs) ==
    IF outcome = "ok"
    THEN [translations |-> TranslationsOf(lang), next |-> <<>>, rejected |-> FALSE]
    ELSE [translations |-> trs,
          next |-> IF lang # DEFAULT_LANG THEN <<DEFAULT_LANG>> ELSE <<>>,
          rejected |-> FALSE]

\* a call waiting for a fetch: the function called, the language it was called
\* for, the languages whose fetch it has started, and for each fetch that
\* ended whether it gave the file ("ok") or not ("failed")
Load(call, lang) ==
    [call |-> call, lang |-> lang, fetched |-> <<lang>>, outcomes |-> <<>>]

IOp(name) == [name |-> name]

\* what a call saw when it was made
I18nView ==
    [currentLang |-> currentLang, langStorage |-> langStorage,
     translations |-> translations, loads |-> loads]

\* init()
I18nInit ==
    LET saved == getSavedLanguage(langStorage, langStorageWorks)
        detected == detectBrowserLanguage(browserLang)
        lang == IF saved.t # "null" THEN saved.v ELSE detected.lang
    IN /\ IF i18nInitialized \/ (saved.t = "null" /\ detected.threw)
          THEN UNCHANGED <<currentLang, loads>>
          ELSE /\ Len(loads) < MaxLoads
               /\ currentLang' = lang
               /\ loads' = Append(loads, Load("init", lang))
       /\ i18nOp' = [name |-> "init",
                     threw |-> ~i18nInitialized /\ saved.t = "null" /\ detected.threw]
       /\ i18nEvents' = <<>>
       /\ UNCHANGED <<translations, i18nInitialized, observers, langStorage,
                      langStorageWorks, browserLang>>

\* setLanguage(lang), up to its await
SetLanguage(lang) ==
    /\ IF ~SupportedLang(lang) \/ lang.v = currentLang
       THEN UNCHANGED <<currentLang, langStorage, loads>>
       ELSE /\ Len(loads) < MaxLoads
            /\ currentLang' = lang.v
            /\ langStorage' = IF langStorageWorks THEN lang ELSE langStorage
            /\ loads' = Append(loads, Load("setLanguage", lang.v))
    /\ i18nOp' = [name |-> "setLanguage", lang |-> lang, pre |-> I18nView]
    /\ i18nEvents' = <<>>
    /\ UNCHANGED <<translations, i18nInitialized, observers, langStorageWorks,
                   browserLang>>

\* what runs after `await loadTranslations(...)`: init sets isInitialized;
\* setLanguage calls the observers and dispatches languageChanged
afterLoad(load, trs) ==
    /\ i18nInitialized' = (i18nInitialized \/ load.call = "init")
    /\ i18nEvents' = IF load.call = "setLanguage"
                     THEN [i \in 1..Len(observers) |->
                             [kind |-> "observer", cb |-> observers[i],
                              lang |-> load.lang]]
                          \o <<[kind |-> "languageChanged", cb |-> "window",
                                lang |-> load.lang, translations |-> trs]>>
                     ELSE <<>>

\* the fetch of the call at place i of loads ends
FetchEnds(i, outcome) ==
    /\ i \in 1..Len(loads)
    /\ LET load == loads[i]
           lang == load.fetched[Len(load.fetched)]
           step == loadTranslations(lang, outcome, translations)
           outcomes == Append(load.outcomes, IF outcome = "ok" THEN "ok" ELSE "failed")
       IN /\ translations' = step.translations
          /\ IF step.next # <<>>
             THEN /\ loads' = [loads EXCEPT ![i] =
                                 [load EXCEPT !.fetched = Append(@, step.next[1]),
                                              !.outcomes = outcomes]]
                  /\ UNCHANGED <<i18nInitialized, i18nEvents>>
             ELSE /\ loads' = RemoveAt(loads, i)
                  /\ afterLoad(load, step.translations)
          /\ i18nOp' = [name |-> "fetch", call |-> load.call, lang |-> load.lang,
                        fetched |-> load.fetched, outcomes |-> outcomes,
                        next |-> step.next, rejected |-> step.rejected,
                        pre |-> translations]
    /\ UNCHANGED <<currentLang, observers, langStorage, langStorageWorks, browserLang>>

\* subscribe(callback)
I18nSubscribe(callback) ==
    /\ Len(observers) < MaxObservers
    /\ observers' = Append(observers, callback)
    /\ i18nOp' = IOp("subscribe")
    /\ i18nEvents' = <<>>
    /\ UNCHANGED <<currentLang, translations, i18nInitialized, langStorage,
                   langStorageWorks, browserLang, loads>>

\* the function subscribe returned
I18nUnsubscribe(callback) ==
    /\ observers' = SelectSeq(observers, LAMBDA cb : cb # callback)
    /\ i18nOp' = IOp("unsubscribe")
    /\ i18nEvents' = <<>>
    /\ UNCHANGED <<currentLang, translations, i18nInitialized, langStorage,
                   langStorageWorks, browserLang, loads>>

\* has(key)
HasCall(key) ==
    /\ i18nOp' = [name |-> "has", key |-> key, result |-> has(translations, key)]
    /\ i18nEvents' = <<>>
    /\ UNCHANGED <<currentLang, translations, i18nInitialized, observers,
                   langStorage, langStorageWorks, browserLang, loads>>

-----------------------------------------------------------------------------
(* The icon scripts: scripts/lint-icons.js (class IconLinter) and          *)
(* scripts/icon-governance.js (class IconGovernanceValidator).  An icon    *)
(* name is the sequence of its parts between '-'.  iconsFile is what the    *)
(* scripts parse out of assets/js/icons.js: the collections that are there, *)
(* each the sequence of its 'name': 'path' entries.  toolsFile is          *)
(* assets/data/tools.json: whether JSON.parse accepts it, and its          *)
(* categories.  An SVG path is the sequence of its elements and whether it  *)
(* is written in upper case.                                               *)

Icon ==
    [paint |-> <<"paint", "brush", "01">>, book2 |-> <<"book", "02">>,
     bookmark |-> <<"book", "bookmark", "01">>, bookOpen |-> <<"book", "open", "01">>,
     box |-> <<"box">>, star |-> <<"star">>, search |-> <<"search">>, web |-> <<"web">>,
     statusOk |-> <<"status", "ok">>, ok |-> <<"ok">>, none |-> <<>>]

\* iconName.endsWith('-' + part) and iconName.startsWith(part + '-')
EndsWithPart(name, part) == Len(name) >= 2 /\ name[Len(name)] = part
StartsWithPart(name, part) == Len(name) >= 2 /\ name[1] = part

Svg(els, upper) == [els |-> els, upper |-> upper]
IconEntry(name, path) == [name |-> name, path |-> path]
Category(id, icon) == [id |-> id, icon |-> icon]

\* CONFIG.requiredCollections
requiredCollections == <<"CATEGORY_ICONS", "PLATFORM_ICONS", "UI_ICONS", "STATUS_ICONS">>

\* ICON_UNIQUENESS_MAP, four of its forty-five categories
ICON_UNIQUENESS_MAP ==
    [id \in {"design", "desktop-publishing", "ebook", "reference"} |->
       CASE id = "design" -> Icon.paint
         [] id = "desktop-publishing" -> Icon.bookOpen
         [] id = "ebook" -> Icon.book2
         [] id = "reference" -> Icon.bookmark]

\* ICON_TAXONOMY, the same four categories
ICON_TAXONOMY ==
    [id \in {"design", "desktop-publishing", "ebook", "reference"} |->
       CASE id = "design" ->
              [icon |-> Icon.paint, visualFamily |-> "tool", primaryShape |-> "brush-stroke"]
         [] id = "desktop-publishing" ->
              [icon |-> Icon.bookOpen, visualFamily |-> "book", primaryShape |-> "open-book"]
         [] id = "ebook" ->
              [icon |-> Icon.book2, visualFamily |-> "book", primaryShape |-> "closed-book"]
         [] id = "reference" ->
              [icon |-> Icon.bookmark, visualFamily |-> "book",
               primaryShape |-> "closed-book-marked"]]

\* Object.entries(ICON_TAXONOMY), in the order of the source
taxonomyIds == <<"design", "desktop-publishing", "reference", "ebook">>

\* familyGroups of checkVisualFamilies
familyGroups ==
    <<[family |-> "book", categoryIds |-> <<"desktop-publishing", "ebook", "reference">>],
      [family |-> "shield", categoryIds |-> <<"privacy", "security-tools">>],
      [family |-> "document", categoryIds |-> <<"doc-processing", "notes">>]>>

\* n messages of one kind
Messages(kind, n) == [k \in 1..n |-> kind]
MessageIf(cond, kind) == IF cond THEN <<kind>> ELSE <<>>

\* the messages of a loop over 1..n whose pass i pushes each(i)
PushedBy(each, n) ==
    LET loop[i \in 0..n] == IF i = 0 THEN <<>> ELSE loop[i - 1] \o each[i]
    IN loop[n]

\* collections.X || {}
EntriesOf(collections, name) ==
    IF name \in DOMAIN collections THEN collections[name] ELSE <<>>

HasIcon(entries, name) == \E i \in 1..Len(entries) : entries[i].name = name

\* IconLinter.loadIcons
loadIcons(file) ==
    [collections |-> file,
     errors |-> PushedBy([i \in 1..Len(requiredCollections) |->
                            MessageIf(requiredCollections[i] \notin DOMAIN file,
                                      "Missing collection")],
                         Len(requiredCollections))]

\* IconLinter.checkUniqueMapping: icons.CATEGORY_ICONS[icon] throws a
\* TypeError when the collection is missing
checkUniqueMapping(categories, icons) ==
    LET loop[i \in 0..Len(categories)] ==
          IF i = 0 THEN [errors |-> <<>>, fixes |-> <<>>, threw |-> FALSE]
          ELSE LET p == loop[i - 1]
                   category == categories[i]
                   mismatch == /\ category.id \in DOMAIN ICON_UNIQUENESS_MAP
                               /\ category.icon # ICON_UNIQUENESS_MAP[category.id]
               IN IF p.threw THEN p
                  ELSE [errors |->
                          p.errors
                          \o MessageIf(\E j \in 1..(i - 1) :
                                          categories[j].icon = category.icon, "DUPLICATE")
                          \o MessageIf(mismatch, "MISMATCH")
                          \o MessageIf(/\ "CATEGORY_ICONS" \in DOMAIN icons
                                       /\ ~HasIcon(icons["CATEGORY_ICONS"], category.icon),
                                       "MISSING"),
                        fixes |->
                          p.fixes
                          \o IF mismatch
                             THEN <<[categoryId |-> category.id,
                                     expected |-> ICON_UNIQUENESS_MAP[category.id]]>>
                             ELSE <<>>,
                        threw |-> "CATEGORY_ICONS" \notin DOMAIN icons]
    IN loop[Len(categories)]

\* the entries of every collection, in the order of Object.entries
AllEntries(collections) ==
    PushedBy([c \in 1..Len(requiredCollections) |->
                LET entries == EntriesOf(collections, requiredCollections[c])
                IN [i \in 1..Len(entries) |->
                      [collection |-> requiredCollections[c], path |-> entries[i].path]]],
             Len(requiredCollections))

\* IconLinter.checkCrossCollectionDuplicates
checkCrossCollectionDuplicates(collections) ==
    LET all == AllEntries(collections)
    IN PushedBy([i \in 1..Len(all) |->
                   Messages("CROSS-DUP",
                            Cardinality({j \in 1..(i - 1) :
                                           /\ all[j].path = all[i].path
                                           /\ all[j].collection # all[i].collection}))],
                Len(all))

\* IconLinter.checkNamingConventions
checkNamingConventions(collections) ==
    LET category == EntriesOf(collections, "CATEGORY_ICONS")
        status == EntriesOf(collections, "STATUS_ICONS")
    IN PushedBy([i \in 1..Len(category) |->
                   MessageIf(/\ category[i].name # Icon.box
                             /\ ~EndsWithPart(category[i].name, "01")
                             /\ ~EndsWithPart(category[i].name, "02"), "NAMING")],
                Len(category))
       \o PushedBy([i \in 1..Len(status) |->
                      MessageIf(~StartsWithPart(status[i].name, "status"), "NAMING")],
                   Len(status))

\* IconLinter.checkCategoryCompleteness
checkCategoryCompleteness(categories, icons) ==
    LET category == EntriesOf(icons, "CATEGORY_ICONS")
    IN [errors |->
          PushedBy([i \in 1..Len(categories) |->
                      MessageIf(categories[i].icon = Icon.none, "INCOMPLETE")],
                   Len(categories)),
        warnings |->
          PushedBy([i \in 1..Len(category) |->
                      MessageIf(/\ category[i].name # Icon.box
                                /\ \A j \in 1..Len(categories) :
                                      categories[j].icon # category[i].name, "ORPHAN")],
                   Len(category))]

\* IconLinter.checkVisualFamilies
checkVisualFamilies(categories) ==
    PushedBy([f \in 1..Len(familyGroups) |->
                LET ids == familyGroups[f].categoryIds
                    found == {k \in 1..Len(ids) :
                                \E j \in 1..Len(categories) : categories[j].id = ids[k]}
                    iconOf(k) ==
                      categories[CHOOSE j \in 1..Len(categories) :
                                   /\ categories[j].id = ids[k]
                                   /\ \A l \in 1..(j - 1) : categories[l].id # ids[k]].icon
                IN MessageIf(Cardinality({iconOf(k) : k \in found}) < Cardinality(found),
                             "FAMILY")],
             Len(familyGroups))

\* a lint result whose success flag also needs no warnings
lintResultNoWarnings(errors, warnings) ==
    [success |-> Len(errors) = 0 /\ Len(warnings) = 0, errors |-> Len(errors),
     warnings |-> Len(warnings)]

\* what lint returns
lintResult(errors, warnings) ==
    IF Len(errors) = 0 /\ Len(warnings) = 0
    THEN [success |-> TRUE, errors |-> 0, warnings |-> 0]
    ELSE [success |-> Len(errors) = 0, errors |-> Len(errors), warnings |-> Len(warnings)]

\* IconLinter.lint, with what the instance holds when it returns or throws.
\* JSON.parse of loadCategories throws when tools.json is not JSON.
lint(icons, toolsJson) ==
    LET loaded == loadIcons(icons)
        categories == toolsJson.categories
        unique == checkUniqueMapping(categories, icons)
        complete == checkCategoryCompleteness(categories, icons)
        errors == loaded.errors \o unique.errors \o complete.errors
                  \o checkVisualFamilies(categories)
        warnings == checkCrossCollectionDuplicates(icons)
                    \o checkNamingConventions(icons) \o complete.warnings
    IN IF ~toolsJson.parses
       THEN [threw |-> TRUE, errors |-> loaded.errors, warnings |-> <<>>,
             fixes |-> <<>>, result |-> <<>>]
       ELSE IF unique.threw
       THEN [threw |-> TRUE, errors |-> loaded.errors \o unique.errors,
             warnings |-> <<>>, fixes |-> unique.fixes, result |-> <<>>]
       ELSE [threw |-> FALSE, errors |-> errors, warnings |-> warnings,
             fixes |-> unique.fixes,
             result |-> <<lintResult(errors, warnings)>>]

\* IconLinter.applyFixes: tools.json with the icon of the first category of
\* each fix's id replaced
applyFixes(fixes, toolsJson) ==
    LET loop[k \in 0..Len(fixes)] ==
          IF k = 0 THEN toolsJson.categories
          ELSE LET categories == loop[k - 1]
               IN [j \in 1..Len(categories) |->
                     IF /\ categories[j].id = fixes[k].categoryId
                        /\ \A l \in 1..(j - 1) : categories[l].id # fixes[k].categoryId
                     THEN [categories[j] EXCEPT !.icon = fixes[k].expected]
                     ELSE categories[j]]
    IN [toolsJson EXCEPT !.categories = loop[Len(fixes)]]

\* what a run of a script leaves: its arguments, the errors and warnings the
\* instance recorded, what lint or validate returned (none when it threw),
\* the exit code of the process
Run(program, args, errors, warnings, result, exit) ==
    [program |-> program, args |-> args, errors |-> errors, warnings |-> warnings,
     result |-> result, exit |-> exit]

\* node scripts/lint-icons.js args: main.  An uncaught exception ends the
\* process with exit code 1.
LintIcons(args) ==
    LET linted == lint(iconsFile, toolsFile)
    IN /\ toolsFile' = IF ~linted.threw /\ "--fix" \in args /\ Len(linted.fixes) > 0
                       THEN applyFixes(linted.fixes, toolsFile)
                       ELSE toolsFile
       /\ iconRun' = Run("lint-icons", args, linted.errors, linted.warnings, linted.result,
                         IF linted.threw THEN 1
                         ELSE IF "--ci" \in args
                              THEN (IF linted.result[1].success THEN 0 ELSE 1)
                         ELSE 0)
       /\ UNCHANGED <<iconsFile, reportFile>>

\* generateIconHash: the digest of the path with its white space and case
\* normalised, here that path itself
generateIconHash(svgPath) == svgPath.els

\* extractGeometricFeatures: the tests are for lower-case element names
extractGeometricFeatures(svgPath) ==
    LET hasEl(el) == ~svgPath.upper /\ ArrIncludes(svgPath.els, el)
    IN [hasCircle |-> hasEl("circle"), hasRect |-> hasEl("rect"),
        hasPath |-> hasEl("path"), hasLine |-> hasEl("line"),
        hasPolyline |-> hasEl("polyline"), hasPolygon |-> hasEl("polygon"),
        hasEllipse |-> hasEl("ellipse"),
        elementCount |->
          IF svgPath.upper THEN 0
          ELSE Len(SelectSeq(svgPath.els,
                             LAMBDA el : el \in {"path", "circle", "rect", "line",
                                                 "polyline", "polygon", "ellipse"}))]

\* calculateSimilarity, as a fraction: matchCount / 7 * 0.7 + 0.3 / (1 + countDiff)
calculateSimilarity(icon1Path, icon2Path) ==
    LET features1 == extractGeometricFeatures(icon1Path)
        features2 == extractGeometricFeatures(icon2Path)
        matchCount == Cardinality({key \in DOMAIN features1 \ {"elementCount"} :
                                     features1[key] = features2[key]})
        countDiff == Max2(features1.elementCount, features2.elementCount)
                     - Min2(features1.elementCount, features2.elementCount)
    IN [num |-> matchCount * (1 + countDiff) + 3, den |-> 10 * (1 + countDiff)]

\* IconGovernanceValidator.loadIconRegistry: every 'name': 'path' of the file
loadIconRegistry(file) ==
    IF "CATEGORY_ICONS" \notin DOMAIN file
    THEN [icons |-> <<>>, errors |-> <<"Could not parse CATEGORY_ICONS">>]
    ELSE [icons |-> PushedBy([c \in 1..Len(requiredCollections) |->
                                EntriesOf(file, requiredCollections[c])],
                             Len(requiredCollections)),
          errors |-> <<>>]

\* IconGovernanceValidator.validateUniqueMapping
validateUniqueMapping(categories) ==
    PushedBy([i \in 1..Len(categories) |->
                MessageIf(\E j \in 1..(i - 1) : categories[j].icon = categories[i].icon,
                          "DUPLICATE ICON")],
             Len(categories))

\* IconGovernanceValidator.validateTaxonomy
validateTaxonomy(categories) ==
    [errors |->
       PushedBy([i \in 1..Len(categories) |->
                   MessageIf(/\ categories[i].id \in DOMAIN ICON_TAXONOMY
                             /\ categories[i].icon # ICON_TAXONOMY[categories[i].id].icon,
                             "TAXONOMY MISMATCH")],
                Len(categories)),
     warnings |->
       PushedBy([i \in 1..Len(categories) |->
                   MessageIf(categories[i].id \notin DOMAIN ICON_TAXONOMY,
                             "MISSING TAXONOMY")],
                Len(categories))]

\* IconGovernanceValidator.validateVisualDifferentiation
validateVisualDifferentiation ==
    PushedBy([i \in 1..Len(taxonomyIds) |->
                MessageIf(\E j \in 1..(i - 1) :
                             /\ ICON_TAXONOMY[taxonomyIds[j]].visualFamily
                                  = ICON_TAXONOMY[taxonomyIds[i]].visualFamily
                             /\ ICON_TAXONOMY[taxonomyIds[j]].primaryShape
                                  = ICON_TAXONOMY[taxonomyIds[i]].primaryShape,
                          "SHAPE COLLISION")],
             Len(taxonomyIds))

\* IconGovernanceValidator.generateHashes
generateHashes(icons) ==
    PushedBy([i \in 1..Len(icons) |->
                MessageIf(\E j \in 1..(i - 1) :
                             generateIconHash(icons[j].path) = generateIconHash(icons[i].path),
                          "HASH COLLISION")],
             Len(icons))

\* IconGovernanceValidator.detectSimilarIcons: similarity > 0.85
detectSimilarIcons(icons) ==
    PushedBy([i \in 1..Len(icons) |->
                Messages("HIGH SIMILARITY",
                         Cardinality({j \in (i + 1)..Len(icons) :
                            LET similarity == calculateSimilarity(icons[i].path, icons[j].path)
                            IN similarity.num * 100 > 85 * similarity.den}))],
             Len(icons))

\* IconGovernanceValidator.validate
validate(file, toolsJson) ==
    LET registry == loadIconRegistry(file)
        categories == toolsJson.categories
        taxonomy == validateTaxonomy(categories)
        errors == registry.errors \o validateUniqueMapping(categories) \o taxonomy.errors
                  \o validateVisualDifferentiation \o generateHashes(registry.icons)
        warnings == taxonomy.warnings \o detectSimilarIcons(registry.icons)
    IN IF ~toolsJson.parses
       THEN [threw |-> TRUE, errors |-> registry.errors, warnings |-> <<>>, result |-> <<>>]
       ELSE [threw |-> FALSE, errors |-> errors, warnings |-> warnings,
             result |-> IF Len(errors) = 0 /\ Len(warnings) = 0
                        THEN <<[success |-> TRUE]>>
                        ELSE <<[success |-> Len(errors) = 0]>>]

\* IconGovernanceValidator.generateReport, its summary
generateReport(errors, warnings) ==
    [errors |-> Len(errors), warnings |-> Len(warnings),
     status |-> IF Len(errors) = 0 THEN "COMPLIANT" ELSE "NON-COMPLIANT"]

NoReport == [errors |-> 0, warnings |-> 0, status |-> "none"]

\* node scripts/icon-governance.js args: main
IconGovernance(args) ==
    LET validated == validate(iconsFile, toolsFile)
    IN /\ reportFile' = IF ~validated.threw /\ "--report" \in args
                        THEN generateReport(validated.errors, validated.warnings)
                        ELSE reportFile
       /\ iconRun' = Run("icon-governance", args, validated.errors, validated.warnings,
                         validated.result,
                         IF validated.threw THEN 1
                         ELSE IF "--report" \in args THEN 0
                         ELSE IF "--ci" \in args
                              THEN (IF validated.result[1].success THEN 0 ELSE 1)
                         ELSE 0)
       /\ UNCHANGED <<iconsFile, toolsFile>>

-----------------------------------------------------------------------------
(* The build script.  A path, and the text of a page, is the sequence of   *)
(* its names and separators ('/', '.', '?'), so that endsWith, extname and  *)
(* the replacement of asset references are computed.  srcAssets is the      *)
(* source directory assets/: its files in the order of readdir, each with   *)
(* what minifying its content gives.  srcHtml and distHtml give for each    *)
(* page that exists the asset references in its text, one after the other.  *)
(* dist is the set of the paths under dist/assets.                          *)

\* a file of assets/: its path below the source directory, whether it is a
\* directory, what the minifier makes of it ("ok", "empty": no code left,
\* "throws") and the hash of the minified content
Asset(filePath, isDir, minified, hash) ==
    [path |-> filePath, isDir |-> isDir, minified |-> minified, hash |-> hash]

cssDir == <<"assets", "/", "css", "/">>
jsDir == <<"assets", "/", "js", "/">>

\* file.endsWith('.' + ext)
EndsWithExt(file, ext) ==
    Len(file) >= 2 /\ file[Len(file) - 1] = "." /\ file[Len(file)] = ext

\* the entries of readdir(dir) that can end in an extension: what is
\* directly in dir (the directory of a longer path has a plain name here)
Readdir(assets, dir) ==
    LET under == SelectSeq(assets, LAMBDA a : /\ Len(a.path) > Len(dir)
                                              /\ SubSeq(a.path, 1, Len(dir)) = dir)
        rest(a) == SubSeq(a.path, Len(dir) + 1, Len(a.path))
    IN SelectSeq(under, LAMBDA a : \A i \in 1..Len(rest(a)) : rest(a)[i] # "/")

\* generateHash(content): the digest of the minified content
generateHash(asset) == asset.hash

\* addHashToFilename(filename, hash): base.hash.ext
addHashToFilename(filename, hash) ==
    IF Len(filename) >= 2 /\ filename[Len(filename) - 1] = "."
    THEN SubSeq(filename, 1, Len(filename) - 2) \o <<".", hash>>
         \o SubSeq(filename, Len(filename) - 1, Len(filename))
    ELSE filename \o <<".", hash>>

\* html.replace(new RegExp(escaped original, 'g'), hashed)
ReplaceAll(s, original, hashed) ==
    LET n == Len(original)
        from[i \in 1..(Len(s) + 1)] ==
          IF i > Len(s) THEN <<>>
          ELSE IF i + n - 1 <= Len(s) /\ SubSeq(s, i, i + n - 1) = original
               THEN hashed \o from[i + n]
               ELSE <<s[i]>> \o from[i + 1]
    IN from[1]

\* the pages build processes, three of its eight
htmlFiles == <<"index.html", "404.html", "about.html">>

\* steps 1 and 2: dist is emptied and assets/ is copied into it
BuildStart ==
    /\ buildPc \in {"idle", "done", "failed"}
    /\ dist' = {srcAssets[i].path : i \in 1..Len(srcAssets)}
    /\ distHtml' = <<>>
    /\ hashMap' = <<>>
    /\ manifest' = <<>>
    /\ buildPc' = "css"
    /\ UNCHANGED <<srcAssets, srcHtml>>

\* the loop of steps 3 and 4 over the files of dir that end in ext: the file
\* is read (a directory cannot be: the build fails), minified, written under
\* its hashed name, the original removed and the mapping stored; inTry tells
\* whether the minifier runs in a try block, where a failure of it is logged
\* and the file left alone.  CleanCSS does not throw.
minifyDir(dir, ext, inTry, d, map) ==
    LET files == SelectSeq(Readdir(srcAssets, dir),
                           LAMBDA a : EndsWithExt(a.path, ext))
        loop[k \in 0..Len(files)] ==
          IF k = 0 THEN [dist |-> d, hashMap |-> map, threw |-> FALSE]
          ELSE LET p == loop[k - 1]
                   file == files[k]
                   hashed == dir \o addHashToFilename(
                                      SubSeq(file.path, Len(dir) + 1, Len(file.path)),
                                      generateHash(file))
               IN IF p.threw THEN p
                  ELSE IF file.isDir THEN [p EXCEPT !.threw = TRUE]
                  ELSE IF inTry /\ file.minified # "ok" THEN p
                  ELSE [dist |-> (p.dist \cup {hashed}) \ {file.path},
                        hashMap |-> Append(p.hashMap,
                                           [original |-> file.path, hashed |-> hashed]),
                        threw |-> FALSE]
    IN loop[Len(files)]

\* step 3: minify CSS with cache-busting
MinifyCss ==
    /\ buildPc = "css"
    /\ LET done == minifyDir(cssDir, "css", FALSE, dist, hashMap)
       IN /\ dist' = done.dist
          /\ hashMap' = done.hashMap
          /\ buildPc' = IF done.threw THEN "failed" ELSE "js"
    /\ UNCHANGED <<srcAssets, srcHtml, distHtml, manifest>>

\* step 4: minify JS with cache-busting
MinifyJs ==
    /\ buildPc = "js"
    /\ LET done == minifyDir(jsDir, "js", TRUE, dist, hashMap)
       IN /\ dist' = done.dist
          /\ hashMap' = done.hashMap
          /\ buildPc' = IF done.threw THEN "failed" ELSE "html"
    /\ UNCHANGED <<srcAssets, srcHtml, distHtml, manifest>>

\* a page written as it was read
rewriteHtmlNot(html, map) == html

\* the text of a page with every mapping of the hash map applied in turn
rewriteHtml(html, map) ==
    LET loop[k \in 0..Len(map)] ==
          IF k = 0 THEN html
          ELSE ReplaceAll(loop[k - 1], map[k].original, map[k].hashed)
    IN loop[Len(map)]

\* steps 5 and 6: the JSON files are minified in place; each page of
\* htmlFiles that exists is read from the source, its asset references are
\* replaced by the hashed ones, and it is minified and written to dist
ProcessHtml ==
    /\ buildPc = "html"
    /\ distHtml' = [page \in {htmlFiles[i] : i \in 1..Len(htmlFiles)} \cap DOMAIN srcHtml |->
                      [r \in 1..Len(srcHtml[page]) |->
                         rewriteHtml(srcHtml[page][r], hashMap)]]
    /\ buildPc' = "manifest"
    /\ UNCHANGED <<srcAssets, srcHtml, dist, hashMap, manifest>>

\* step 7: asset-manifest.json is written
WriteManifest ==
    /\ buildPc = "manifest"
    /\ manifest' = hashMap
    /\ buildPc' = "done"
    /\ UNCHANGED <<srcAssets, srcHtml, dist, distHtml, hashMap>>

-----------------------------------------------------------------------------
(* The inputs of the model.                                                *)

\* "", "Photo", " Ar\tt", "photo  gimq" and null
QueryInputs == {Str(<<>>),
                Str(<<"P", "h", "o", "t", "o">>),
                Str(<<" ", "A", "r", "\t", "t">>),
                Str(<<"p", "h", "o", "t", "o", " ", " ", "g", "i", "m", "q">>),
                NullValue}
CategoryInputs == {Str(W_all), Str(W_design), Str(<<>>), NullValue}
PlatformNames == {W_web, W_ios}
TagNames == {W_art}

\* the arrays of at most n of the names, none twice
Selections(names, n) ==
    {a \in StringsUpTo(names, n) : \A i, j \in 1..Len(a) : a[i] = a[j] => i = j}
PlatformInputs == {Arr(a) : a \in Selections(PlatformNames, MaxSelected)} \cup {NullValue}
TagInputs == {Arr(a) : a \in Selections(TagNames, MaxSelected)} \cup {NullValue}

\* what init is given: the tools and whether onResults is a function
InitInputs ==
    {<<Arr(c), TRUE>> : c \in ToolCatalogs}
      \cup {<<Arr(<<T_Gimp, T_Krita, T_Digikam, T_NoName>>), FALSE>>}

\* the inputs of the calls made while callbacks subscribe and unsubscribe
SubsInitInputs == {<<Arr(<<T_Gimp, T_Krita, T_Digikam, T_NoName>>), TRUE>>,
                   <<NullValue, TRUE>>}
SubsQueryInputs == {Str(<<"P", "h", "o", "t", "o">>), NullValue}
SubsCallbackInputs == Callbacks \cup {"notAFunction"}

\* I18n: what localStorage holds at first, navigator.language, what
\* setLanguage is handed, the keys has is asked for
I18nInputs ==
    [stored |-> {NullValue, Str(Lang.ilo), Str(Lang.fr)},
     browserLangs |-> {Str(<<"e", "n", "-", "U", "S">>),
                       Str(<<"f", "i", "l", "-", "P", "H">>),
                       Str(<<"T", "L">>),
                       Str(Lang.ceb),
                       Str(<<"d", "e", "-", "D", "E">>),
                       Undefined},
     setLanguage |-> {Str(Lang.en), Str(Lang.tl), Str(Lang.fr), NullValue},
     keys |-> {Join(parts, <<".">>) :
                 parts \in StringsUpTo({Key[k] : k \in DOMAIN Key}, MaxKeyParts)},
     translations |-> {NoTranslations, TranslationsOf(Lang.en), TranslationsOf(Lang.tl),
                       TranslationsOf(Lang.ilo)}]

\* the icon scripts: the flags on the command line, the contents of icons.js
\* and of tools.json
IconInputs ==
    LET category == <<IconEntry(Icon.paint, Svg(<<"path">>, FALSE)),
                      IconEntry(Icon.book2, Svg(<<"rect", "line">>, FALSE)),
                      IconEntry(Icon.bookmark,
                                Svg(<<"polygon", "polyline", "ellipse">>, FALSE))>>
        clean == [c \in {"CATEGORY_ICONS", "PLATFORM_ICONS", "UI_ICONS", "STATUS_ICONS"} |->
                    IF c = "CATEGORY_ICONS" THEN category ELSE <<>>]
        design == Category("design", Icon.paint)
        ebook == Category("ebook", Icon.book2)
        reference == Category("reference", Icon.bookmark)
    IN [args |-> SUBSET {"--ci", "--fix", "--report"},
        iconsFiles |->
          {clean,
           \* a badly named, unused category icon and a badly named status icon
           [clean EXCEPT !["CATEGORY_ICONS"] =
                           Append(category, IconEntry(Icon.star, Svg(<<"circle">>, FALSE))),
                         !["STATUS_ICONS"] =
                           <<IconEntry(Icon.ok, Svg(<<"circle">>, FALSE))>>],
           \* a UI icon with the path of a category icon, in upper case, and a
           \* platform icon that is a <use> element
           [clean EXCEPT !["PLATFORM_ICONS"] =
                           <<IconEntry(Icon.web, Svg(<<"use">>, FALSE))>>,
                         !["UI_ICONS"] = <<IconEntry(Icon.search, Svg(<<"path">>, TRUE))>>],
           \* no STATUS_ICONS
           [c \in {"CATEGORY_ICONS", "PLATFORM_ICONS", "UI_ICONS"} |-> clean[c]],
           \* no CATEGORY_ICONS
           [c \in {"PLATFORM_ICONS", "UI_ICONS", "STATUS_ICONS"} |-> clean[c]]},
        toolsFiles |->
          {[parses |-> TRUE, categories |-> <<design, ebook, reference>>],
           [parses |-> TRUE,
            categories |-> <<design, ebook, Category("reference", Icon.book2)>>],
           [parses |-> TRUE, categories |-> <<design, Category("other", Icon.none)>>],
           [parses |-> TRUE,
            categories |-> <<design, Category("other", Icon.book2), reference>>],
           [parses |-> TRUE, categories |-> <<>>],
           [parses |-> FALSE, categories |-> <<>>]}]

\* the build: the source assets (a style sheet, a vendored script in a
\* subdirectory, and any of: a script, its .min twin, a script terser
\* rejects, a script of comments only, a directory named like a script) and
\* the pages, each referring to the assets that are there
BuildInputs ==
    LET base == Asset(cssDir \o <<"base", ".", "css">>, FALSE, "ok", "h1")
        lib == Asset(jsDir \o <<"vendor", "/", "lib", ".", "js">>, FALSE, "ok", "h2")
        scripts == <<Asset(jsDir \o <<"app", ".", "js">>, FALSE, "ok", "h3"),
                     Asset(jsDir \o <<"app", ".", "min", ".", "js">>, FALSE, "ok", "h3"),
                     Asset(jsDir \o <<"bad", ".", "js">>, FALSE, "throws", "h4"),
                     Asset(jsDir \o <<"empty", ".", "js">>, FALSE, "empty", "h5"),
                     Asset(jsDir \o <<"chart", ".", "js">>, TRUE, "throws", "h6")>>
        assetsOf(S) == <<base>> \o SelectSeq(scripts, LAMBDA a : a \in S) \o <<lib>>
        refs(assets, lead) ==
          [i \in 1..Len(assets) |->
             IF assets[i].isDir THEN lib.path ELSE lead \o assets[i].path \o <<"?", "v">>]
        pagesOf(assets, P) ==
          [page \in P |-> IF page = "index.html" THEN refs(assets, <<"/">>)
                          ELSE refs(assets, <<>>)]
    IN {[assets |-> assetsOf(S), html |-> pagesOf(assetsOf(S), P)] :
          S \in SUBSET {scripts[i] : i \in 1..Len(scripts)},
          P \in {{"index.html"}, {"index.html", "about.html", "draft.html"}}}

\* the inputs of the calls made while the caller changes the arrays it holds
AliasInitInputs == {<<Arr(<<T_Gimp, T_Krita, T_Digikam, T_NoName>>), TRUE>>}
AliasPushed == {W_ios}

-----------------------------------------------------------------------------
(* The specifications.  Each runs one module; the others stay as loaded.   *)

LevRests ==
    UNCHANGED <<levA, levB, levOut, levPc>>
SearchRests ==
    UNCHANGED <<state, tools, searchIndex, givenTools, onResultsCallback,
                lastProcessedKey, subscribers, heap, callerArg, callerSnap,
                callerMeta, delivered, events, lastOp, thrown>>
ThemeRests ==
    UNCHANGED <<currentTheme, systemPreference, dataTheme, storage,
                storageWorks, mediaMatches, themeInit, themeOp, lastSaved>>
I18nRests ==
    UNCHANGED <<currentLang, translations, i18nInitialized, observers, langStorage,
                langStorageWorks, browserLang, loads, i18nOp, i18nEvents>>
IconRests ==
    UNCHANGED <<iconsFile, toolsFile, reportFile, iconRun>>
BuildRests ==
    UNCHANGED <<srcAssets, srcHtml, dist, distHtml, hashMap, manifest, buildPc>>

\* what is not fixed when the modules are loaded, each with the one value it
\* has where a specification does not say otherwise
Loaded ==
    [as |-> {<<>>}, bs |-> {<<>>},
     stored |-> {"absent"}, works |-> {TRUE}, matches |-> {FALSE},
     langStored |-> {NullValue}, langWorks |-> {TRUE},
     browserLangs |-> {Str(<<"e", "n", "-", "U", "S">>)},
     translations |-> {NoTranslations},
     iconsFiles |-> {<<>>},
     toolsFiles |-> {[parses |-> FALSE, categories |-> <<>>]},
     projects |-> {[assets |-> <<>>, html |-> <<>>]}]

Init(in) ==
    /\ levA \in in.as
    /\ levB \in in.bs
    /\ levOut = 0
    /\ levPc = "call"
    /\ state = InitialState
    /\ tools = <<>>
    /\ searchIndex = <<>>
    /\ givenTools = <<>>
    /\ onResultsCallback = FALSE
    /\ lastProcessedKey = NullKey
    /\ subscribers = <<>>
    /\ heap = EmptyHeap
    /\ callerArg = NoRef
    /\ callerSnap = NoArrays
    /\ callerMeta = NoArrays
    /\ delivered = <<>>
    /\ events = <<>>
    /\ lastOp = Op("none")
    /\ thrown = FALSE
    /\ currentTheme = "auto"
    /\ systemPreference = "light"
    /\ dataTheme = "unset"
    /\ themeInit = FALSE
    /\ themeOp = TOp("reload", "auto")
    /\ lastSaved = "none"
    /\ storage \in in.stored
    /\ storageWorks \in in.works
    /\ mediaMatches \in in.matches
    /\ currentLang = DEFAULT_LANG
    /\ translations \in in.translations
    /\ i18nInitialized = FALSE
    /\ observers = <<>>
    /\ langStorage \in in.langStored
    /\ langStorageWorks \in in.langWorks
    /\ browserLang \in in.browserLangs
    /\ loads = <<>>
    /\ i18nOp = IOp("none")
    /\ i18nEvents = <<>>
    /\ iconsFile \in in.iconsFiles
    /\ toolsFile \in in.toolsFiles
    /\ reportFile = NoReport
    /\ iconRun = Run("none", {}, <<>>, <<>>, <<>>, 0)
    /\ \E project \in in.projects : srcAssets = project.assets /\ srcHtml = project.html
    /\ dist = {}
    /\ distHtml = <<>>
    /\ hashMap = <<>>
    /\ manifest = <<>>
    /\ buildPc = "idle"

\* a call of levenshteinDistance
InitLev == Init([Loaded EXCEPT !.as = LevInputs, !.bs = LevInputs])
NextLev == LevCall /\ SearchRests /\ ThemeRests /\ I18nRests /\ IconRests /\ BuildRests
SpecLev == InitLev /\ [][NextLev]_vars

\* the filters and the search
InitSearchSpec == Init(Loaded)
NextSearch ==
    \/ \E in \in InitInputs : InitSearch(in[1], in[2]) /\ LevRests /\ ThemeRests /\ I18nRests /\ IconRests /\ BuildRests
    \/ \E query \in QueryInputs : SetQuery(query) /\ LevRests /\ ThemeRests /\ I18nRests /\ IconRests /\ BuildRests
    \/ ClearSearch /\ LevRests /\ ThemeRests /\ I18nRests /\ IconRests /\ BuildRests
    \/ \E category \in CategoryInputs : SetCategory(category) /\ LevRests /\ ThemeRests /\ I18nRests /\ IconRests /\ BuildRests
    \/ \E platforms \in PlatformInputs :
          SetPlatforms(platforms, FALSE) /\ LevRests /\ ThemeRests /\ I18nRests /\ IconRests /\ BuildRests
    \/ \E platform \in PlatformNames : TogglePlatform(platform) /\ LevRests /\ ThemeRests /\ I18nRests /\ IconRests /\ BuildRests
    \/ \E tags \in TagInputs : SetTags(tags, FALSE) /\ LevRests /\ ThemeRests /\ I18nRests /\ IconRests /\ BuildRests
    \/ \E tag \in TagNames : ToggleTag(tag) /\ LevRests /\ ThemeRests /\ I18nRests /\ IconRests /\ BuildRests
    \/ ClearFilters /\ LevRests /\ ThemeRests /\ I18nRests /\ IconRests /\ BuildRests
    \/ ResetAll /\ LevRests /\ ThemeRests /\ I18nRests /\ IconRests /\ BuildRests
    \/ PerformSearchCall /\ LevRests /\ ThemeRests /\ I18nRests /\ IconRests /\ BuildRests
SpecSearch == InitSearchSpec /\ [][NextSearch]_vars

\* the subscribers and the calls that notify them
InitSubs == Init(Loaded)
NextSubs ==
    \/ \E in \in SubsInitInputs : InitSearch(in[1], in[2]) /\ LevRests /\ ThemeRests /\ I18nRests /\ IconRests /\ BuildRests
    \/ \E callback \in SubsCallbackInputs : Subscribe(callback) /\ LevRests /\ ThemeRests /\ I18nRests /\ IconRests /\ BuildRests
    \/ \E callback \in Callbacks : Unsubscribe(callback) /\ LevRests /\ ThemeRests /\ I18nRests /\ IconRests /\ BuildRests
    \/ \E query \in SubsQueryInputs : SetQuery(query) /\ LevRests /\ ThemeRests /\ I18nRests /\ IconRests /\ BuildRests
    \/ HandleSearchInput(W_photo) /\ LevRests /\ ThemeRests /\ I18nRests /\ IconRests /\ BuildRests
    \/ ClearSearch /\ LevRests /\ ThemeRests /\ I18nRests /\ IconRests /\ BuildRests
    \/ SetCategory(Str(W_design)) /\ LevRests /\ ThemeRests /\ I18nRests /\ IconRests /\ BuildRests
    \/ SetPlatforms(Arr(<<W_web>>), FALSE) /\ LevRests /\ ThemeRests /\ I18nRests /\ IconRests /\ BuildRests
    \/ TogglePlatform(W_web) /\ LevRests /\ ThemeRests /\ I18nRests /\ IconRests /\ BuildRests
    \/ SetTags(Arr(<<W_art>>), FALSE) /\ LevRests /\ ThemeRests /\ I18nRests /\ IconRests /\ BuildRests
    \/ ToggleTag(W_art) /\ LevRests /\ ThemeRests /\ I18nRests /\ IconRests /\ BuildRests
    \/ ClearFilters /\ LevRests /\ ThemeRests /\ I18nRests /\ IconRests /\ BuildRests
    \/ ResetAll /\ LevRests /\ ThemeRests /\ I18nRests /\ IconRests /\ BuildRests
    \/ PerformSearchCall /\ LevRests /\ ThemeRests /\ I18nRests /\ IconRests /\ BuildRests
    \/ ResetSearch /\ LevRests /\ ThemeRests /\ I18nRests /\ IconRests /\ BuildRests
SpecSubs == InitSubs /\ [][NextSubs]_vars

\* the arrays that go in and come out, and a caller that changes them
InitAlias == Init(Loaded)
NextAlias ==
    \/ \E in \in AliasInitInputs : InitSearch(in[1], in[2]) /\ LevRests /\ ThemeRests /\ I18nRests /\ IconRests /\ BuildRests
    \/ SetPlatforms(Arr(<<W_web>>), TRUE) /\ LevRests /\ ThemeRests /\ I18nRests /\ IconRests /\ BuildRests
    \/ SetTags(Arr(<<W_art>>), TRUE) /\ LevRests /\ ThemeRests /\ I18nRests /\ IconRests /\ BuildRests
    \/ TogglePlatform(W_web) /\ LevRests /\ ThemeRests /\ I18nRests /\ IconRests /\ BuildRests
    \/ ToggleTag(W_art) /\ LevRests /\ ThemeRests /\ I18nRests /\ IconRests /\ BuildRests
    \/ GetStateCall /\ LevRests /\ ThemeRests /\ I18nRests /\ IconRests /\ BuildRests
    \/ \E ref \in Addr, x \in AliasPushed : CallerPush(ref, x) /\ LevRests /\ ThemeRests /\ I18nRests /\ IconRests /\ BuildRests
    \/ \E ref \in Addr : CallerClear(ref) /\ LevRests /\ ThemeRests /\ I18nRests /\ IconRests /\ BuildRests
SpecAlias == InitAlias /\ [][NextAlias]_vars

\* the theme
InitTheme == Init([Loaded EXCEPT !.stored = StoredValues, !.works = BOOLEAN,
                                !.matches = BOOLEAN])
NextTheme ==
    \/ ThemeInitCall /\ LevRests /\ SearchRests /\ I18nRests /\ IconRests /\ BuildRests
    \/ \E theme \in ThemeInputs : SetTheme(theme) /\ LevRests /\ SearchRests /\ I18nRests /\ IconRests /\ BuildRests
    \/ ToggleTheme /\ LevRests /\ SearchRests /\ I18nRests /\ IconRests /\ BuildRests
    \/ \E matches \in BOOLEAN : SystemChange(matches) /\ LevRests /\ SearchRests /\ I18nRests /\ IconRests /\ BuildRests
    \/ PageReload /\ LevRests /\ SearchRests /\ I18nRests /\ IconRests /\ BuildRests
    \/ \E works \in BOOLEAN : StorageAvailability(works) /\ LevRests /\ SearchRests /\ I18nRests /\ IconRests /\ BuildRests
SpecTheme == InitTheme /\ [][NextTheme]_vars

\* the language and the loading of translations
InitI18n == Init([Loaded EXCEPT !.langStored = I18nInputs.stored,
                               !.langWorks = BOOLEAN,
                               !.browserLangs = I18nInputs.browserLangs])
NextI18n ==
    \/ I18nInit /\ LevRests /\ SearchRests /\ ThemeRests /\ IconRests /\ BuildRests
    \/ \E lang \in I18nInputs.setLanguage : SetLanguage(lang) /\ LevRests /\ SearchRests /\ ThemeRests /\ IconRests /\ BuildRests
    \/ \E i \in 1..MaxLoads, outcome \in FetchOutcomes :
          FetchEnds(i, outcome) /\ LevRests /\ SearchRests /\ ThemeRests /\ IconRests /\ BuildRests
    \/ I18nSubscribe("obsA") /\ LevRests /\ SearchRests /\ ThemeRests /\ IconRests /\ BuildRests
    \/ I18nUnsubscribe("obsA") /\ LevRests /\ SearchRests /\ ThemeRests /\ IconRests /\ BuildRests
SpecI18n == InitI18n /\ [][NextI18n]_vars

\* has, on the translations of a file and on none
InitHas == Init([Loaded EXCEPT !.translations = I18nInputs.translations])
NextHas ==
    \E key \in I18nInputs.keys : HasCall(key) /\ LevRests /\ SearchRests /\ ThemeRests /\ IconRests /\ BuildRests
SpecHas == InitHas /\ [][NextHas]_vars

\* the icon scripts, run again and again with any flags on any of the files
InitIcons == Init([Loaded EXCEPT !.iconsFiles = IconInputs.iconsFiles,
                                !.toolsFiles = IconInputs.toolsFiles])
NextIcons ==
    \/ \E args \in IconInputs.args :
          LintIcons(args) /\ LevRests /\ SearchRests /\ ThemeRests /\ I18nRests /\ BuildRests
    \/ \E args \in IconInputs.args :
          IconGovernance(args) /\ LevRests /\ SearchRests /\ ThemeRests /\ I18nRests /\ BuildRests
SpecIcons == InitIcons /\ [][NextIcons]_vars

\* the build, step by step, and run again
InitBuild == Init([Loaded EXCEPT !.projects = BuildInputs])
NextBuild ==
    \/ BuildStart /\ LevRests /\ SearchRests /\ ThemeRests /\ I18nRests /\ IconRests
    \/ MinifyCss /\ LevRests /\ SearchRests /\ ThemeRests /\ I18nRests /\ IconRests
    \/ MinifyJs /\ LevRests /\ SearchRests /\ ThemeRests /\ I18nRests /\ IconRests
    \/ ProcessHtml /\ LevRests /\ SearchRests /\ ThemeRests /\ I18nRests /\ IconRests
    \/ WriteManifest /\ LevRests /\ SearchRests /\ ThemeRests /\ I18nRests /\ IconRests
SpecBuild == InitBuild /\ [][NextBuild]_vars

-----------------------------------------------------------------------------
(* The properties.                                                         *)

\* the strings one insertion, deletion or substitution away from s
OneEdit(s) ==
    {RemoveAt(s, i) : i \in 1..Len(s)}
      \cup {[s EXCEPT ![i] = c] : i \in 1..Len(s), c \in LevAlphabet}
      \cup {SubSeq(s, 1, i) \o <<c>> \o SubSeq(s, i + 1, Len(s)) :
              i \in 0..Len(s), c \in LevAlphabet}

\* the strings at most k edits away from a
Within(a, k) ==
    LET reach[n \in 0..k] ==
          IF n = 0 THEN {a}
          ELSE LET nearer == reach[n - 1]
               IN nearer \cup UNION {OneEdit(s) : s \in nearer}
    IN reach[k]

\* the least number of edits that turn a into b
EditDistance(a, b) ==
    CHOOSE k \in 0..Max2(Len(a), Len(b)) :
        /\ b \in Within(a, k)
        /\ k > 0 => b \notin Within(a, k - 1)

\* C1: levenshteinDistance(a, b) is the least number of single-character
\* insertions, deletions and substitutions that turn a into b; it is 0
\* exactly when a = b, and it is the same for (b, a).
C1_LevenshteinIsEditDistance ==
    levPc = "done" =>
        /\ levOut = EditDistance(levA, levB)
        /\ (levOut = 0 <=> levA = levB)
        /\ levOut = levenshteinDistance(levB, levA)

\* "ab" and "baa" are two edits apart
C1_Witness ==
    /\ levPc = "done"
    /\ levA = <<"a", "b">>
    /\ levB = <<"b", "a", "a">>
    /\ levOut = 2

\* the call delivered results to the results callback
Delivered == delivered # <<>>

\* the places of S in the list given to init, in the order of the list
GivenIn(S) ==
    SelectSeq([i \in 1..Len(givenTools) |-> i], LAMBDA i : i \in S)

\* tool t has one of the selected names, or none is selected
AnySelected(selected, owned) ==
    Len(selected) = 0 \/ \E i \in 1..Len(selected) : ArrIncludes(owned, selected[i])

\* C2 as stated: with an empty query the delivered results are exactly the
\* tools given to init whose category is the selected one (or the category
\* is 'all'), that have a selected platform (or none is selected) and a
\* selected tag (or none is selected), in the order of the list given to init.
C2_AsStated ==
    Delivered /\ state.query = <<>> =>
        delivered[1].results =
            GivenIn({i \in 1..Len(givenTools) :
                /\ state.category = W_all \/ givenTools[i].category = state.category
                /\ AnySelected(heap[state.platforms], givenTools[i].platforms)
                /\ AnySelected(heap[state.tags], givenTools[i].tags)})

\* C2: with an empty query the delivered results are exactly the tools given
\* to init that have an id and a name, whose category is the selected one
\* (or the category is 'all' or empty), that have a selected platform (or
\* none is selected) and a selected tag (or none is selected), in the order
\* of the list given to init.
C2_EmptyQueryResults ==
    Delivered /\ state.query = <<>> =>
        delivered[1].results =
            GivenIn({i \in 1..Len(givenTools) :
                /\ givenTools[i].id # 0 /\ givenTools[i].name # <<>>
                /\ \/ state.category \in {W_all, <<>>}
                   \/ givenTools[i].category = state.category
                /\ AnySelected(heap[state.platforms], givenTools[i].platforms)
                /\ AnySelected(heap[state.tags], givenTools[i].tags)})

\* no query, the empty category, both platforms selected: the three tools
\* with a name, of the four given
C2_Witness ==
    /\ Delivered
    /\ state.query = <<>>
    /\ state.category = <<>>
    /\ heap[state.platforms] = <<W_ios, W_web>>
    /\ Len(givenTools) = 4
    /\ delivered[1].results = <<1, 2, 3>>

\* the total score of the tool at place i of the given list for the query
TotalScore(i) ==
    calculateMatchScore(givenTools[i], queryWordsOf(state.query), searchIndex)

\* C3: with a non-empty query the delivered results hold only tools of a
\* total score above 0, in the order of non-increasing total score, tools of
\* equal score in their order in the tools list.
C3_ScoredAndSorted ==
    Delivered /\ state.query # <<>> =>
        LET results == delivered[1].results
        IN /\ \A k \in 1..Len(results) : TotalScore(results[k]) > 0
           /\ \A k, l \in 1..Len(results) :
                 k < l => \/ TotalScore(results[k]) > TotalScore(results[l])
                          \/ /\ TotalScore(results[k]) = TotalScore(results[l])
                             /\ results[k] < results[l]

\* "photo": Krita (70) before Digikam (40) before Gimp (30)
C3_Witness ==
    /\ Delivered
    /\ state.query = W_photo
    /\ Len(givenTools) = 4
    /\ givenTools[1] = T_Gimp
    /\ delivered[1].results = <<2, 3, 1>>

\* the word is a substring of one of the tool's lower-cased alternatives_to
InAlternatives(tool, word) ==
    \E i \in 1..Len(tool.alternatives_to) :
        Includes(ToLower(tool.alternatives_to[i]), word)

\* C4 as stated: a query word that is a substring of one of a tool's
\* alternatives_to entries contributes a word score of at least 70 to that
\* tool, and the tool is in the results ahead of every tool that has the word
\* in its tagline but not in its alternatives_to.
C4_AsStated ==
    Delivered /\ state.query # <<>> /\ Len(queryWordsOf(state.query)) = 1 =>
        LET word == queryWordsOf(state.query)[1]
            results == delivered[1].results
        IN \A k \in 1..Len(results) :
              InAlternatives(givenTools[results[k]], word) =>
                 /\ wordScoreOf(givenTools[results[k]],
                                searchIndex[givenTools[results[k]].id], word) >= 70
                 /\ \A l \in 1..Len(results) :
                       /\ ~InAlternatives(givenTools[results[l]], word)
                       /\ Includes(ToLower(givenTools[results[l]].tagline), word)
                       => k < l

\* the functions of Search that change the filters
StateChangingOps ==
    {"setQuery", "setCategory", "setPlatforms", "togglePlatform", "setTags",
     "toggleTag", "clearFilters", "clearSearch", "resetAll"}

\* what getState() returns now, as its reader sees it
CurrentSnapshot ==
    LET g == getState(state, heap, tools, "snapPlatforms", "snapTags")
    IN Deref(g.obj, g.heap)

\* the call invoked each subscriber once, after the results callback, with
\* the state as it is after the call
SubscribersNotified ==
    LET calls == SelectSeq(events, LAMBDA e : e.kind = "subscriber")
    IN /\ Len(calls) = Len(subscribers)
       /\ \A i \in 1..Len(calls) :
             calls[i].cb = subscribers[i] /\ calls[i].arg = CurrentSnapshot
       /\ \A i, j \in 1..Len(events) :
             events[i].kind = "results" /\ events[j].kind = "subscriber" => i < j

\* C5 as stated: each of setQuery, setCategory, setPlatforms, togglePlatform,
\* setTags, toggleTag, clearFilters, clearSearch and resetAll invokes every
\* subscribed callback exactly once, after the search, with a snapshot equal
\* to getState() after the call, a throwing subscriber not stopping the
\* others and an unsubscribed callback not invoked.
C5_AsStated ==
    lastOp.name \in StateChangingOps => SubscribersNotified

\* C6: a caller that changes the platforms or tags array of a state object it
\* got from getState, of the meta object its results callback got, or the
\* array it passed to setPlatforms or setTags, leaves the module's filters as
\* they were, and so what getState returns next.
C6_CallerArraysAreCopies ==
    lastOp.name \in {"callerPush", "callerClear"} =>
        /\ filterView(state, heap) = lastOp.pre[1]
        /\ CurrentSnapshot.platforms = lastOp.pre[1].platforms
        /\ CurrentSnapshot.tags = lastOp.pre[1].tags

\* the caller pushed onto the array it had passed to setPlatforms
C6_Witness ==
    /\ lastOp.name = "callerPush"
    /\ lastOp.ref = "argArray"
    /\ lastOp.pre[1].platforms = <<W_web>>
    /\ heap[state.platforms] = <<W_web>>

\* C7: after clearFilters the platforms and the tags are empty, and the query
\* and the category are what they were before the call.
C7_ClearFiltersKeepsQueryAndCategory ==
    lastOp.name = "clearFilters" =>
        /\ heap[state.platforms] = <<>>
        /\ heap[state.tags] = <<>>
        /\ state.query = lastOp.pre[1].query
        /\ state.category = lastOp.pre[1].category

\* clearFilters with filters set, a query and a category
C7_Witness ==
    /\ lastOp.name = "clearFilters"
    /\ lastOp.pre[1].hasFilters
    /\ state.query = W_photo
    /\ state.category = W_design

\* C8: after resetAll the query is '', the category 'all', the platforms and
\* the tags empty, hasActiveFilters() false, and the results callback, when
\* there is one, was handed the whole tools list in its order.
C8_ResetAllResetsEverything ==
    lastOp.name = "resetAll" =>
        /\ state.query = <<>>
        /\ state.category = W_all
        /\ heap[state.platforms] = <<>>
        /\ heap[state.tags] = <<>>
        /\ ~hasActiveFilters(state, heap)
        /\ onResultsCallback =>
              /\ Delivered
              /\ delivered[1].results = tools
              /\ tools = GivenIn({i \in 1..Len(givenTools) : ValidTool(givenTools[i])})

\* resetAll with a query and filters set, the callback handed the three tools
C8_Witness ==
    /\ lastOp.name = "resetAll"
    /\ lastOp.pre[1].hasFilters
    /\ lastOp.pre[1].query = W_photo
    /\ lastOp.pre[1].category = W_design
    /\ onResultsCallback
    /\ delivered[1].results = <<1, 2, 3>>

\* C9: once init has run, data-theme is 'light' or 'dark' and is
\* getAppliedTheme(): the system preference while the theme is 'auto', the
\* chosen theme otherwise; a change of the system preference while 'light' or
\* 'dark' is chosen leaves data-theme as it was.
C9_DataThemeIsAppliedTheme ==
    themeInit =>
        /\ dataTheme \in {"light", "dark"}
        /\ dataTheme = getAppliedTheme(currentTheme, systemPreference)
        /\ dataTheme = IF currentTheme = "auto"
                       THEN (IF mediaMatches THEN "dark" ELSE "light")
                       ELSE currentTheme
        /\ themeOp.name = "systemChange" /\ currentTheme \in {"light", "dark"}
              => dataTheme = themeOp.before

\* the system turns dark while 'light' is chosen
C9_Witness ==
    /\ themeInit
    /\ themeOp.name = "systemChange"
    /\ currentTheme = "light"
    /\ mediaMatches
    /\ dataTheme = "light"

\* C10: init yields the theme last saved by setTheme when the storage works;
\* it yields 'auto' when the stored value is absent or not one of the three
\* themes, or the storage throws.
C10_ThemeRoundTrips ==
    themeOp.name = "init" =>
        /\ storageWorks /\ lastSaved # "none" => currentTheme = lastSaved
        /\ ~storageWorks \/ storage \notin THEMES => currentTheme = "auto"

\* setTheme('dark'), a reload, init: the theme is 'dark'
C10_Witness ==
    /\ themeOp.name = "init"
    /\ storageWorks
    /\ lastSaved = "dark"
    /\ currentTheme = "dark"

\* the other one of 'light' and 'dark'
OtherTheme(theme) == IF theme = "light" THEN "dark" ELSE "light"

\* C11: after toggle() the current theme is 'light' or 'dark', never 'auto',
\* and the applied theme (getAppliedTheme() and data-theme) is the opposite of
\* the applied theme before the call; after two toggles in a row it is the
\* applied theme before the first.
C11_ToggleFlipsAppliedTheme ==
    themeOp.name = "toggle" =>
        /\ currentTheme \in {"light", "dark"}
        /\ themeOp.before \in {"light", "dark"}
        /\ getAppliedTheme(currentTheme, systemPreference) = OtherTheme(themeOp.before)
        /\ dataTheme = OtherTheme(themeOp.before)
        /\ themeOp.prior # "none" =>
              getAppliedTheme(currentTheme, systemPreference) = themeOp.prior

\* two toggles in a row from 'auto' under a dark system: dark, light, dark
C11_Witness ==
    /\ themeOp.name = "toggle"
    /\ themeOp.prior = "dark"
    /\ themeOp.before = "light"
    /\ currentTheme = "dark"
    /\ systemPreference = "dark"
    /\ lastSaved = "dark"

\* the language setLanguage was handed is not supported, or is the current one
SetLanguageNoOp ==
    /\ i18nOp.name = "setLanguage"
    /\ ~SupportedLang(i18nOp.lang) \/ i18nOp.lang.v = i18nOp.pre.currentLang

\* C12: the current language is always one of en, tl, ilo, bis, whatever is
\* stored and whatever the browser's language is, before, during and after
\* init and every setLanguage; and setLanguage with an unsupported code or
\* with the current language leaves the language, the storage, the
\* translations and the loads under way as they were, calls no observer and
\* dispatches no languageChanged event.
C12_LanguageSupportedAndNoOps ==
    /\ ArrIncludes(SUPPORTED_LANGS, currentLang)
    /\ SetLanguageNoOp => I18nView = i18nOp.pre /\ i18nEvents = <<>>

C12_Witness ==
    /\ SetLanguageNoOp
    /\ i18nOp.lang = Str(Lang.fr)
    /\ langStorage = Str(Lang.fr)
    /\ i18nInitialized
    /\ currentLang = Lang.bis
    /\ observers # <<>>

\* the dot-notation key names a value of the translations: every part but the
\* last names a property that is an object, the last a property of it
Resolves(trs, key) ==
    /\ key # <<>>
    /\ LET parts == SplitOn(key, ".")
           walk[i \in 0..Len(parts)] ==
             IF i = 0 THEN <<trs>>
             ELSE LET at == walk[i - 1]
                  IN IF at # <<>> /\ at[1].t = "object" /\ parts[i] \in DOMAIN at[1].v
                     THEN <<at[1].v[parts[i]]>>
                     ELSE <<>>
       IN walk[Len(parts)] # <<>>

\* C13 as stated: has(key) is true exactly when the dot-notation key resolves
\* to a value of the loaded translations, and false for every absent key.
C13_AsStated ==
    i18nOp.name = "has" => (i18nOp.result <=> Resolves(translations, i18nOp.key))

\* the fetch that just ended, and how
LastFetched == i18nOp.fetched[Len(i18nOp.fetched)]
LastOutcome == i18nOp.outcomes[Len(i18nOp.outcomes)]

\* C17: when the fetch of a language other than English fails (fetch or
\* json() rejects, or the response is not OK) English is fetched next and
\* nothing else changes; when the fetch of English fails the translations
\* stay what they were and nothing more is fetched; a fetch that succeeds
\* sets the translations to the file's; loadTranslations never rejects, so
\* the call that awaited it goes on; and no call makes more than two fetches,
\* the second one only for English after a failure.
C17_FallbackToEnglish ==
    i18nOp.name = "fetch" =>
        /\ Len(i18nOp.fetched) <= 2
        /\ i18nOp.fetched[1] = i18nOp.lang
        /\ Len(i18nOp.fetched) = 2 =>
              /\ i18nOp.fetched[2] = DEFAULT_LANG
              /\ i18nOp.lang # DEFAULT_LANG
              /\ i18nOp.outcomes[1] # "ok"
        /\ ~i18nOp.rejected
        /\ IF LastOutcome = "ok"
           THEN translations = TranslationsOf(LastFetched) /\ i18nOp.next = <<>>
           ELSE /\ translations = i18nOp.pre
                /\ i18nOp.next = IF Len(i18nOp.fetched) = 1 /\ i18nOp.lang # DEFAULT_LANG
                                 THEN <<DEFAULT_LANG>> ELSE <<>>
        /\ (i18nOp.next = <<>> /\ i18nOp.call = "setLanguage") =>
              /\ i18nEvents # <<>>
              /\ i18nEvents[Len(i18nEvents)].kind = "languageChanged"
              /\ i18nEvents[Len(i18nEvents)].translations = translations
        /\ (i18nOp.next = <<>> /\ i18nOp.call = "init") => i18nInitialized

C17_Witness ==
    /\ i18nOp.name = "fetch"
    /\ i18nOp.call = "setLanguage"
    /\ i18nOp.fetched = <<Lang.tl, Lang.en>>
    /\ i18nOp.outcomes = <<"failed", "failed">>
    /\ translations = TranslationsOf(Lang.ilo)
    /\ currentLang = Lang.tl
    /\ loads = <<>>

\* the tool at place i of the given list is one init kept, and passes the
\* category, platform and tag filters
PassesFilters(i) ==
    /\ givenTools[i].id # 0 /\ givenTools[i].name # <<>>
    /\ \/ state.category \in {W_all, <<>>}
       \/ givenTools[i].category = state.category
    /\ AnySelected(heap[state.platforms], givenTools[i].platforms)
    /\ AnySelected(heap[state.tags], givenTools[i].tags)

\* every word of the query has a word score above 0 for the tool at place i
EveryWordScores(i) ==
    /\ givenTools[i].id \in DOMAIN searchIndex
    /\ LET words == queryWordsOf(state.query)
       IN \A k \in 1..Len(words) :
             wordScoreOf(givenTools[i], searchIndex[givenTools[i].id], words[k]) > 0

\* C16: a query of several words is a conjunction: a tool is in the results
\* exactly when it passes the category, platform and tag filters and every
\* whitespace-separated word of the query has a word score above 0 for it; a
\* single word that matches nothing in the tool excludes it, whatever the
\* other words score.
C16_EveryWordMustMatch ==
    Delivered /\ state.query # <<>> =>
        \A i \in 1..Len(givenTools) :
            (\E k \in 1..Len(delivered[1].results) : delivered[1].results[k] = i)
                <=> (PassesFilters(i) /\ EveryWordScores(i))

\* "photo gimq": Gimp matches both words; Krita and Digikam match "photo" and
\* not "gimq"
C16_Witness ==
    /\ Delivered
    /\ queryWordsOf(state.query) = <<W_photo, <<"g", "i", "m", "q">>>>
    /\ state.category = W_all
    /\ heap[state.platforms] = <<>>
    /\ heap[state.tags] = <<>>
    /\ Len(givenTools) = 4
    /\ givenTools[1] = T_Gimp
    /\ wordScoreOf(T_Krita, searchIndex[T_Krita.id], W_photo) = 70
    /\ delivered[1].results = <<1>>

\* a script has run
IconScriptRan == iconRun.program # "none"

\* lint or validate threw: the run ended by an uncaught exception
IconRunThrew == iconRun.result = <<>>

\* C14 as stated: a run with --ci, of the linter or of the validator, exits
\* with code 1 exactly when it recorded at least one error and with code 0
\* otherwise, and the success flag of the lint result is (errors = 0).
C14_AsStated ==
    IconScriptRan /\ "--ci" \in iconRun.args =>
        /\ iconRun.exit = IF Len(iconRun.errors) > 0 THEN 1 ELSE 0
        /\ ~IconRunThrew => iconRun.result[1].success = (Len(iconRun.errors) = 0)

\* the run took the branch of main that ends in process.exit: --ci for the
\* linter, --ci without --report for the validator
CiMode ==
    /\ "--ci" \in iconRun.args
    /\ iconRun.program = "icon-governance" => "--report" \notin iconRun.args

\* C14: a run in CI mode (--ci; for the validator --ci without --report,
\* which comes first in main) that is not ended by an exception exits with
\* code 1 exactly when it recorded at least one error and with code 0
\* otherwise, so warnings alone never fail it; a run ended by an exception
\* (tools.json is not JSON, or CATEGORY_ICONS is missing from icons.js while
\* there are categories) exits with code 1 whatever it recorded; what lint
\* and validate return says success exactly when no error was recorded, and
\* the lint result counts the errors and warnings recorded.
C14_ExitCodeInCiMode ==
    IconScriptRan =>
        /\ IconRunThrew => iconRun.exit = 1
        /\ ~IconRunThrew =>
              /\ iconRun.result[1].success = (Len(iconRun.errors) = 0)
              /\ CiMode => iconRun.exit = IF Len(iconRun.errors) > 0 THEN 1 ELSE 0
              /\ iconRun.program = "lint-icons" =>
                    /\ iconRun.result[1].errors = Len(iconRun.errors)
                    /\ iconRun.result[1].warnings = Len(iconRun.warnings)

\* the linter in CI mode with an orphaned, badly named icon whose path is
\* that of a status icon: four warnings, no error, exit code 0
C14_Witness ==
    /\ iconRun.program = "lint-icons"
    /\ iconRun.args = {"--ci"}
    /\ iconRun.errors = <<>>
    /\ iconRun.warnings = <<"CROSS-DUP", "NAMING", "NAMING", "ORPHAN">>
    /\ iconRun.result = <<[success |-> TRUE, errors |-> 0, warnings |-> 4]>>
    /\ iconRun.exit = 0

\* the text has the path in it
Mentions(text, filePath) ==
    \E i \in 1..Len(text) :
        i + Len(filePath) - 1 <= Len(text) /\ SubSeq(text, i, i + Len(filePath) - 1) = filePath

\* the path a reference of a page asks for: without the leading '/' and the
\* query
Referenced(ref) ==
    LET start == IF ref[1] = "/" THEN 2 ELSE 1
        query == {i \in 1..Len(ref) : ref[i] = "?"}
        stop == IF query = {} THEN Len(ref) ELSE (CHOOSE i \in query : \A j \in query : i <= j) - 1
    IN SubSeq(ref, start, stop)

\* the source files the build minifies: the style sheets directly in
\* assets/css, and the scripts directly in assets/js that terser turns into
\* code
MinifiedAssets ==
    {srcAssets[i] : i \in {k \in 1..Len(srcAssets) :
        LET a == srcAssets[k]
        IN /\ ~a.isDir
           /\ \/ /\ SubSeq(a.path, 1, Len(cssDir)) = cssDir /\ EndsWithExt(a.path, "css")
                 /\ Len(a.path) = Len(cssDir) + 3
              \/ /\ SubSeq(a.path, 1, Len(jsDir)) = jsDir /\ EndsWithExt(a.path, "js")
                 /\ \A j \in (Len(jsDir) + 1)..Len(a.path) : a.path[j] # "/"
                 /\ a.minified = "ok"}}

\* the hashed path of a minified asset: the hash before the extension
HashedPath(a) ==
    SubSeq(a.path, 1, Len(a.path) - 2) \o <<".", a.hash>>
    \o SubSeq(a.path, Len(a.path) - 1, Len(a.path))

\* C15: after a build that completes, every CSS and JS file that was
\* minified is in dist under its content-hashed name and not under its
\* original name, asset-manifest.json maps its original path to the hashed
\* one, and every reference to it in the output pages names the hashed path;
\* every other asset keeps its name and its references (so a script terser
\* rejects stays in dist and referenced under its original name); and no
\* output page references an asset that is not in dist.
C15_HashedAssetsAndReferences ==
    buildPc = "done" =>
        /\ \A a \in MinifiedAssets :
              /\ HashedPath(a) \in dist
              /\ a.path \notin dist
              /\ \E k \in 1..Len(manifest) :
                    manifest[k] = [original |-> a.path, hashed |-> HashedPath(a)]
        /\ Len(manifest) = Cardinality(MinifiedAssets)
        /\ \A i \in 1..Len(srcAssets) :
              srcAssets[i] \notin MinifiedAssets => srcAssets[i].path \in dist
        /\ DOMAIN distHtml = DOMAIN srcHtml \cap {htmlFiles[i] : i \in 1..Len(htmlFiles)}
        /\ \A page \in DOMAIN distHtml :
              /\ Len(distHtml[page]) = Len(srcHtml[page])
              /\ \A r \in 1..Len(distHtml[page]) :
                    /\ Referenced(distHtml[page][r]) \in dist
                    /\ \A a \in MinifiedAssets :
                          Referenced(srcHtml[page][r]) = a.path
                             => Referenced(distHtml[page][r]) = HashedPath(a)
                    /\ (\A a \in MinifiedAssets : Referenced(srcHtml[page][r]) # a.path)
                          => distHtml[page][r] = srcHtml[page][r]

\* a completed build of a project with app.js, app.min.js and a script that
\* terser rejects: three hashed assets, bad.js in dist and referenced by the
\* pages under its own name
C15_Witness ==
    /\ buildPc = "done"
    /\ Len(manifest) = 3
    /\ Cardinality(MinifiedAssets) = 3
    /\ jsDir \o <<"bad", ".", "js">> \in dist
    /\ jsDir \o <<"app", ".", "min", ".", "h3", ".", "js">> \in dist
    /\ DOMAIN distHtml = {"index.html", "about.html"}
    /\ \E r \in 1..Len(distHtml["index.html"]) :
          distHtml["index.html"][r] = <<"/">> \o jsDir \o <<"bad", ".", "js", "?", "v">>
    /\ \E r \in 1..Len(distHtml["about.html"]) :
          distHtml["about.html"][r] = jsDir \o <<"app", ".", "h3", ".", "js", "?", "v">>

=============================================================================
